---- MODULE Spec2Model ----
(***************************************************************************)
(* RandomProof: commit-reveal randomness.                                  *)
(*                                                                         *)
(* Part 1, the commitment ledger: the four Solidity contracts of the       *)
(* repository (RandomProof, RandomProofOptimized, and their string-keyed   *)
(* variants) driven through the repository's mock VRF coordinators.        *)
(* Each transaction is one action: the EVM runs a transaction to the end   *)
(* or reverts it as a whole.                                               *)
(***************************************************************************)
EXTENDS Integers, Sequences, FiniteSets, TLC

\* ------------------------------------------------------------------------
\* Bounds of the model
\* ------------------------------------------------------------------------
\* number of mined (successful) ledger transactions in one behaviour
MaxTx == 3

\* ------------------------------------------------------------------------
\* Ledger: values
\* ------------------------------------------------------------------------
Contracts == {"RandomProof", "RandomProofOptimized",
              "RandomProofOptimizedString", "RandomProofString"}
StringKeyed == {"RandomProofOptimizedString", "RandomProofString"}

\* entity hashes a caller can pass; "short" is a string of 63 characters,
\* which only the string-typed contracts can be handed
HashInputs == {"h1", "h2", "short"}
HashLen(h) == IF h = "short" THEN 63 ELSE 64
Salts == {"s1", "s2"}
Users == {"u1", "u2"}
CoordinatorAddress == "coordinator"
ZeroAddress == "0x0"
ZeroBytes == "0x0"
\* ids 1..MaxTx can be allocated; 0 and MaxTx + 1 never are
RequestIds == 0..(MaxTx + 1)
\* the words the oracle delivers: any uint256, zero among them
RandomWords == {0, 1}

\* keccak256(bytes(entityHash)): injective on the strings of the model
keccak256(s) ==
  CASE s = "h1" -> "keccak256(h1)"
    [] s = "h2" -> "keccak256(h2)"
    [] s = "short" -> "keccak256(short)"

\* the zero value a Solidity mapping returns for a key never written
ZeroRequest == [entityHash |-> ZeroBytes, salt |-> ZeroBytes, randomness |-> 0,
                timestamp |-> 0, fulfilled |-> FALSE, requester |-> ZeroAddress,
                fulfilledBlock |-> 0]

\* the key under which a contract indexes an entity hash
HashKey(c, h) == IF c = "RandomProofOptimizedString" THEN keccak256(h) ELSE h
Keys == HashInputs \cup {keccak256(h) : h \in HashInputs}

VARIABLES
  contract,               \* which contract is deployed
  s_requests,             \* mapping(uint256 => RandomnessRequest)
  entityHashToRequestId,  \* mapping(key => uint256)
  processedEntityHashes,  \* mapping(key => bool)
  requestIds,             \* uint256[] requestIds (RandomProof)
  requestCount,           \* uint256 requestCount (RandomProofOptimized)
  lastRequestId,          \* uint256 lastRequestId (RandomProof)
  events,                 \* the event log of the contract
  s_nextRequestId,        \* coordinator: next request id
  s_consumers,            \* coordinator: mapping(uint256 => address)
  blockNumber,            \* block.number / block.timestamp
  call,                   \* the last transaction and its outcome
  \* --- MathRandomDriver (mathRandomDriver.ts) ---
  pendingRequests,        \* Map entityHash -> {transactionId, saltBytes32, timestamp}
  completedResults,       \* Map entityHash -> number
  localStorage,           \* the two localStorage items of the driver
  now,                    \* Date.now()
  mathCall,               \* the last driver call and what it returned
  requested,              \* history: the hashes ever passed to requestRandomness
  firstFetched,           \* history: hash -> first positive value fetchRandomness returned
  \* --- API3QRNGDriver ---
  api3_pendingRequests,         \* Map requestId -> QRNGRequest
  api3_entityHashToRequestId,   \* Map entityHash -> requestId
  qrng,                   \* the service: requestId -> status and random number
  qrngNextId,             \* the service: the next request id it hands out
  api3Call,               \* the last driver call and what it returned
  api3FirstFetched,       \* history: hash -> first positive value fetchRandomness returned
  \* --- the draw workflow of the web application ---
  store,                  \* the pinia store useRandomProofStore
  form,                   \* InputForm.vue: the local refs of the form
  route,                  \* the current route and its query
  page,                   \* the results view: ResultsView, ResultsPage refs
  gist,                   \* the files of the published gist
  mtStream,               \* the draws of MersenneTwister(seed), per seed, and their grain
  committed,              \* history: what the last handleSubmit hashed
  shuffleInput,           \* history: the lines last handed to shuffleArray
  wfCall,                 \* the last handler and whether it succeeded
  \* --- callers of shuffleArray ---
  shuffleCalls,           \* history: the first and the last call of shuffleArray
  \* --- the polling of the results page ---
  poller,                 \* ResultsPage: its refs, its timer, its calls in flight
  \* --- ChainlinkVRFDriver ---
  entityHashToTxId,       \* Map entityHash -> transaction hash
  chain,                  \* the mined transactions: the receipt of each
  vrfRequests,            \* the VRF contract: request id -> what it holds
  chainlinkCall,          \* the last driver call and what it returned
  \* --- utils/keccak ---
  saltCall,               \* the last saltToBytes32 call and what it returned
  \* --- DeterministicTestDriver ---
  det,                    \* the driver: seed, delay, requestCount, ...
  detClock,               \* Date.now(), in steps of SleepMs
  detCall,                \* the last driver call and what it returned
  \* --- HomeView: submissions side by side ---
  submissions             \* what each submission hashed and committed

ledgerVars == <<contract, s_requests, entityHashToRequestId, processedEntityHashes,
                requestIds, requestCount, lastRequestId, events, s_nextRequestId,
                s_consumers, blockNumber, call>>

mathVars == <<pendingRequests, completedResults, localStorage, now, mathCall,
              requested, firstFetched>>

api3Vars == <<api3_pendingRequests, api3_entityHashToRequestId, qrng,
              qrngNextId, api3Call, api3FirstFetched>>

workflowVars == <<store, form, route, page, gist, mtStream, committed,
                  shuffleInput, wfCall>>

shuffleVars == <<shuffleCalls>>

pollVars == <<poller>>

chainlinkVars == <<entityHashToTxId, chain, vrfRequests, chainlinkCall>>

saltVars == <<saltCall>>

detVars == <<det, detClock, detCall>>

submitVars == <<submissions>>

\* the chain state as one value, so that a transaction is a function on it
LedgerState ==
  [s_requests |-> s_requests, entityHashToRequestId |-> entityHashToRequestId,
   processedEntityHashes |-> processedEntityHashes, requestIds |-> requestIds,
   requestCount |-> requestCount, lastRequestId |-> lastRequestId,
   events |-> events, s_nextRequestId |-> s_nextRequestId,
   s_consumers |-> s_consumers, blockNumber |-> blockNumber]

SetLedger(L) ==
  /\ s_requests' = L.s_requests
  /\ entityHashToRequestId' = L.entityHashToRequestId
  /\ processedEntityHashes' = L.processedEntityHashes
  /\ requestIds' = L.requestIds
  /\ requestCount' = L.requestCount
  /\ lastRequestId' = L.lastRequestId
  /\ events' = L.events
  /\ s_nextRequestId' = L.s_nextRequestId
  /\ s_consumers' = L.s_consumers
  /\ blockNumber' = L.blockNumber

\* what the sender of the last transaction saw: the function called, the
\* entity hash or request id it was called with, and the result or the error
NoCall == [op |-> "none", entityHash |-> "", requestId |-> 0, ok |-> TRUE, error |-> "",
           reentry |-> "none"]

\* ------------------------------------------------------------------------
\* Mock coordinators (MockVRFCoordinator, VRFCoordinatorV2Mock)
\* ------------------------------------------------------------------------
\* a coordinator that hands the same id out again
requestRandomWords_sameId(L, consumer) ==
  [L |-> [L EXCEPT !.s_consumers = [@ EXCEPT ![L.s_nextRequestId] = consumer]],
   requestId |-> L.s_nextRequestId]

\* requestRandomWords: allocate the next id and remember the consumer
requestRandomWords(L, consumer) ==
  [L |-> [L EXCEPT !.s_nextRequestId = @ + 1,
                   !.s_consumers = [@ EXCEPT ![L.s_nextRequestId] = consumer]],
   requestId |-> L.s_nextRequestId]

\* the require of fulfillRandomWords: the id was handed to this consumer
ConsumerMatches(L, requestId, consumer) == L.s_consumers[requestId] = consumer

\* ------------------------------------------------------------------------
\* RandomProof (RandomProof.sol)
\* ------------------------------------------------------------------------
\* a requestRandomness that never looks at the processed flag
RP_precall_unchecked(L, entityHash) == [ok |-> TRUE, error |-> "", L |-> L]

RP_precall(L, entityHash) ==
  IF L.processedEntityHashes[entityHash]
  THEN [ok |-> FALSE, error |-> "EntityAlreadyProcessed", L |-> L]
  ELSE [ok |-> TRUE, error |-> "", L |-> L]

\* a requestRandomness that points every indexed hash at the new record
RP_postcall_reindexed(L, requestId, entityHash, salt, sender) ==
  [L EXCEPT
     !.s_requests = [@ EXCEPT ![requestId] =
        [entityHash |-> entityHash, salt |-> salt, randomness |-> 0,
         timestamp |-> L.blockNumber, fulfilled |-> FALSE, requester |-> sender,
         fulfilledBlock |-> 0]],
     !.entityHashToRequestId =
        [k \in Keys |-> IF k = entityHash \/ L.entityHashToRequestId[k] # 0
                        THEN requestId ELSE 0],
     !.processedEntityHashes = [@ EXCEPT ![entityHash] = TRUE],
     !.requestIds = Append(@, requestId),
     !.lastRequestId = requestId,
     !.events = Append(@, [name |-> "RandomnessRequested", requestId |-> requestId,
                           entityHash |-> entityHash, salt |-> salt,
                           requester |-> sender, randomness |-> 0])]

RP_postcall(L, requestId, entityHash, salt, sender) ==
  [L EXCEPT
     !.s_requests = [@ EXCEPT ![requestId] =
        [entityHash |-> entityHash, salt |-> salt, randomness |-> 0,
         timestamp |-> L.blockNumber, fulfilled |-> FALSE, requester |-> sender,
         fulfilledBlock |-> 0]],
     !.entityHashToRequestId = [@ EXCEPT ![entityHash] = requestId],
     !.processedEntityHashes = [@ EXCEPT ![entityHash] = TRUE],
     !.requestIds = Append(@, requestId),
     !.lastRequestId = requestId,
     !.events = Append(@, [name |-> "RandomnessRequested", requestId |-> requestId,
                           entityHash |-> entityHash, salt |-> salt,
                           requester |-> sender, randomness |-> 0])]

\* a delivery that completes every pending record, not only the one named
RP_fulfillRandomWords_allPending(L, requestId, word) ==
  IF L.s_requests[requestId].timestamp = 0
  THEN [ok |-> FALSE, error |-> "RequestNotFound", L |-> L]
  ELSE [ok |-> TRUE, error |-> "",
        L |-> [L EXCEPT
           !.s_requests = [id \in RequestIds |->
              IF L.s_requests[id].timestamp # 0 /\ ~L.s_requests[id].fulfilled
              THEN [L.s_requests[id] EXCEPT !.randomness = word, !.fulfilled = TRUE]
              ELSE L.s_requests[id]],
           !.events = Append(@,
               [name |-> "RandomnessFulfilled", requestId |-> requestId,
                entityHash |-> L.s_requests[requestId].entityHash,
                salt |-> ZeroBytes, requester |-> ZeroAddress, randomness |-> word])]]

RP_fulfillRandomWords(L, requestId, word) ==
  IF L.s_requests[requestId].timestamp = 0
  THEN [ok |-> FALSE, error |-> "RequestNotFound", L |-> L]
  ELSE [ok |-> TRUE, error |-> "",
        L |-> [L EXCEPT
           !.s_requests = [@ EXCEPT ![requestId] =
              [@ EXCEPT !.randomness = word, !.fulfilled = TRUE]],
           !.events = @ \o
              << [name |-> "RandomnessFulfilled", requestId |-> requestId,
                  entityHash |-> L.s_requests[requestId].entityHash,
                  salt |-> ZeroBytes, requester |-> ZeroAddress, randomness |-> word],
                 [name |-> "EntityProcessed", requestId |-> requestId,
                  entityHash |-> L.s_requests[requestId].entityHash,
                  salt |-> L.s_requests[requestId].salt,
                  requester |-> ZeroAddress, randomness |-> word] >>]]

\* ------------------------------------------------------------------------
\* RandomProofOptimized (bytes32 keys, VRF v2.5)
\* ------------------------------------------------------------------------
RPO_precall(L, entityHash) ==
  IF L.processedEntityHashes[entityHash]
  THEN [ok |-> FALSE, error |-> "EntityAlreadyProcessed", L |-> L]
  ELSE [ok |-> TRUE, error |-> "",
        L |-> [L EXCEPT !.processedEntityHashes = [@ EXCEPT ![entityHash] = TRUE]]]

\* a requestRandomness that stores the record and emits nothing
RPO_postcall_silent(L, requestId, entityHash, salt, sender) ==
  [L EXCEPT
     !.s_requests = [@ EXCEPT ![requestId] =
        [entityHash |-> entityHash, salt |-> salt, randomness |-> 0,
         timestamp |-> L.blockNumber, fulfilled |-> FALSE, requester |-> sender,
         fulfilledBlock |-> 0]],
     !.entityHashToRequestId = [@ EXCEPT ![entityHash] = requestId],
     !.requestCount = @ + 1]

RPO_postcall(L, requestId, entityHash, salt, sender) ==
  [L EXCEPT
     !.s_requests = [@ EXCEPT ![requestId] =
        [entityHash |-> entityHash, salt |-> salt, randomness |-> 0,
         timestamp |-> L.blockNumber, fulfilled |-> FALSE, requester |-> sender,
         fulfilledBlock |-> 0]],
     !.entityHashToRequestId = [@ EXCEPT ![entityHash] = requestId],
     !.requestCount = @ + 1,
     !.events = Append(@, [name |-> "RandomnessRequested", requestId |-> requestId,
                           entityHash |-> entityHash, salt |-> salt,
                           requester |-> sender, randomness |-> 0])]

\* a delivery that rewrites the record from scratch and so drops its salt
RPO_fulfillRandomWords_freshRecord(L, requestId, word) ==
  IF L.s_requests[requestId].timestamp = 0
  THEN [ok |-> FALSE, error |-> "RequestNotFound", L |-> L]
  ELSE [ok |-> TRUE, error |-> "",
        L |-> [L EXCEPT
           !.s_requests = [@ EXCEPT ![requestId] =
              [ZeroRequest EXCEPT !.entityHash = L.s_requests[requestId].entityHash,
                                  !.timestamp = L.s_requests[requestId].timestamp,
                                  !.requester = L.s_requests[requestId].requester,
                                  !.randomness = word, !.fulfilled = TRUE]],
           !.events = Append(@,
               [name |-> "RandomnessFulfilled", requestId |-> requestId,
                entityHash |-> L.s_requests[requestId].entityHash,
                salt |-> ZeroBytes, requester |-> ZeroAddress, randomness |-> word])]]

\* a delivery that counts as a request
RPO_fulfillRandomWords_counted(L, requestId, word) ==
  IF L.s_requests[requestId].timestamp = 0
  THEN [ok |-> FALSE, error |-> "RequestNotFound", L |-> L]
  ELSE [ok |-> TRUE, error |-> "",
        L |-> [L EXCEPT
           !.s_requests = [@ EXCEPT ![requestId] =
              [@ EXCEPT !.randomness = word, !.fulfilled = TRUE]],
           !.requestCount = @ + 1,
           !.events = Append(@,
               [name |-> "RandomnessFulfilled", requestId |-> requestId,
                entityHash |-> L.s_requests[requestId].entityHash,
                salt |-> ZeroBytes, requester |-> ZeroAddress, randomness |-> word])]]

RPO_fulfillRandomWords(L, requestId, word) ==
  IF L.s_requests[requestId].timestamp = 0
  THEN [ok |-> FALSE, error |-> "RequestNotFound", L |-> L]
  ELSE [ok |-> TRUE, error |-> "",
        L |-> [L EXCEPT
           !.s_requests = [@ EXCEPT ![requestId] =
              [@ EXCEPT !.randomness = word, !.fulfilled = TRUE]],
           !.events = Append(@,
               [name |-> "RandomnessFulfilled", requestId |-> requestId,
                entityHash |-> L.s_requests[requestId].entityHash,
                salt |-> ZeroBytes, requester |-> ZeroAddress, randomness |-> word])]]

\* ------------------------------------------------------------------------
\* RandomProofOptimized (string entity hash, keyed by its keccak256)
\* ------------------------------------------------------------------------
\* a requestRandomness that takes an entity hash of any length
RPOS_precall_anyLength(L, entityHash) ==
  IF L.entityHashToRequestId[keccak256(entityHash)] # 0
  THEN [ok |-> FALSE, error |-> "EntityHashAlreadyProcessed", L |-> L]
  ELSE [ok |-> TRUE, error |-> "", L |-> L]

RPOS_precall(L, entityHash) ==
  IF HashLen(entityHash) # 64
  THEN [ok |-> FALSE, error |-> "InvalidEntityHash", L |-> L]
  ELSE IF L.entityHashToRequestId[keccak256(entityHash)] # 0
  THEN [ok |-> FALSE, error |-> "EntityHashAlreadyProcessed", L |-> L]
  ELSE [ok |-> TRUE, error |-> "", L |-> L]

RPOS_postcall(L, requestId, entityHash, salt, sender) ==
  [L EXCEPT
     !.s_requests = [@ EXCEPT ![requestId] =
        [entityHash |-> keccak256(entityHash), salt |-> salt, randomness |-> 0,
         timestamp |-> L.blockNumber, fulfilled |-> FALSE, requester |-> sender,
         fulfilledBlock |-> 0]],
     !.entityHashToRequestId = [@ EXCEPT ![keccak256(entityHash)] = requestId],
     !.events = Append(@, [name |-> "RandomnessRequested", requestId |-> requestId,
                           entityHash |-> keccak256(entityHash), salt |-> salt,
                           requester |-> sender, randomness |-> 0])]

RPOS_fulfillRandomWords(L, requestId, word) ==
  [ok |-> TRUE, error |-> "",
   L |-> [L EXCEPT
      !.s_requests = [@ EXCEPT ![requestId] =
         [@ EXCEPT !.randomness = word, !.fulfilled = TRUE,
                   !.fulfilledBlock = L.blockNumber]],
      !.events = Append(@,
          [name |-> "RandomnessFulfilled", requestId |-> requestId,
           entityHash |-> L.s_requests[requestId].entityHash,
           salt |-> ZeroBytes, requester |-> ZeroAddress, randomness |-> word])]]

\* ------------------------------------------------------------------------
\* RandomProof (string entity hash and salt)
\* ------------------------------------------------------------------------
RPS_precall(L, entityHash) ==
  IF HashLen(entityHash) # 64
  THEN [ok |-> FALSE, error |-> "InvalidEntityHash", L |-> L]
  ELSE IF L.processedEntityHashes[entityHash]
  THEN [ok |-> FALSE, error |-> "EntityHashAlreadyProcessed", L |-> L]
  ELSE [ok |-> TRUE, error |-> "", L |-> L]

RPS_postcall(L, requestId, entityHash, salt, sender) ==
  [L EXCEPT
     !.s_requests = [@ EXCEPT ![requestId] =
        [entityHash |-> entityHash, salt |-> salt, randomness |-> 0,
         timestamp |-> L.blockNumber, fulfilled |-> FALSE, requester |-> sender,
         fulfilledBlock |-> 0]],
     !.entityHashToRequestId = [@ EXCEPT ![entityHash] = requestId],
     !.processedEntityHashes = [@ EXCEPT ![entityHash] = TRUE],
     !.events = Append(@, [name |-> "RandomnessRequested", requestId |-> requestId,
                           entityHash |-> entityHash, salt |-> salt,
                           requester |-> sender, randomness |-> 0])]

RPS_fulfillRandomWords(L, requestId, word) ==
  [ok |-> TRUE, error |-> "",
   L |-> [L EXCEPT
      !.s_requests = [@ EXCEPT ![requestId] =
         [@ EXCEPT !.randomness = word, !.fulfilled = TRUE,
                   !.fulfilledBlock = L.blockNumber]],
      !.events = Append(@,
          [name |-> "RandomnessFulfilled", requestId |-> requestId,
           entityHash |-> L.s_requests[requestId].entityHash,
           salt |-> ZeroBytes, requester |-> ZeroAddress, randomness |-> word])]]

\* ------------------------------------------------------------------------
\* Transactions
\* ------------------------------------------------------------------------
Precall(c, L, entityHash) ==
  CASE c = "RandomProof" -> RP_precall(L, entityHash)
    [] c = "RandomProofOptimized" -> RPO_precall(L, entityHash)
    [] c = "RandomProofOptimizedString" -> RPOS_precall(L, entityHash)
    [] c = "RandomProofString" -> RPS_precall(L, entityHash)

Postcall(c, L, requestId, entityHash, salt, sender) ==
  CASE c = "RandomProof" -> RP_postcall(L, requestId, entityHash, salt, sender)
    [] c = "RandomProofOptimized" -> RPO_postcall(L, requestId, entityHash, salt, sender)
    [] c = "RandomProofOptimizedString" -> RPOS_postcall(L, requestId, entityHash, salt, sender)
    [] c = "RandomProofString" -> RPS_postcall(L, requestId, entityHash, salt, sender)

FulfillRandomWords(c, L, requestId, word) ==
  CASE c = "RandomProof" -> RP_fulfillRandomWords(L, requestId, word)
    [] c = "RandomProofOptimized" -> RPO_fulfillRandomWords(L, requestId, word)
    [] c = "RandomProofOptimizedString" -> RPOS_fulfillRandomWords(L, requestId, word)
    [] c = "RandomProofString" -> RPS_fulfillRandomWords(L, requestId, word)

\* ------------------------------------------------------------------------
\* Views
\* ------------------------------------------------------------------------
\* getRequestByEntityHash: the record the hash's id points at, the zero record
\* for a hash never written
RP_getRequestByEntityHash(L, entityHash) ==
  LET request == L.s_requests[L.entityHashToRequestId[entityHash]] IN
  [ok |-> TRUE, error |-> "", randomness |-> request.randomness,
   fulfilled |-> request.fulfilled]

RPO_getRequestByEntityHash(L, entityHash) ==
  LET request == L.s_requests[L.entityHashToRequestId[entityHash]] IN
  [ok |-> TRUE, error |-> "", randomness |-> request.randomness,
   fulfilled |-> request.fulfilled]

\* getRandomnessForEntityHash: reverts for a hash without a request id
RPOS_getRandomnessForEntityHash(L, entityHash) ==
  LET requestId == L.entityHashToRequestId[keccak256(entityHash)] IN
  IF requestId = 0
  THEN [ok |-> FALSE, error |-> "RequestNotFound", randomness |-> 0, fulfilled |-> FALSE]
  ELSE [ok |-> TRUE, error |-> "", randomness |-> L.s_requests[requestId].randomness,
        fulfilled |-> L.s_requests[requestId].fulfilled]

RPS_getRandomnessForEntityHash(L, entityHash) ==
  LET requestId == L.entityHashToRequestId[entityHash] IN
  IF requestId = 0
  THEN [ok |-> FALSE, error |-> "RequestNotFound", randomness |-> 0, fulfilled |-> FALSE]
  ELSE [ok |-> TRUE, error |-> "", randomness |-> L.s_requests[requestId].randomness,
        fulfilled |-> L.s_requests[requestId].fulfilled]

\* getRequestIdForEntityHash: reverts for a hash without a request id
RPOS_getRequestIdForEntityHash(L, entityHash) ==
  LET requestId == L.entityHashToRequestId[keccak256(entityHash)] IN
  IF requestId = 0
  THEN [ok |-> FALSE, error |-> "RequestNotFound", requestId |-> 0]
  ELSE [ok |-> TRUE, error |-> "", requestId |-> requestId]

\* a getRequestDetails that takes a record for present once anything was
\* written to it
RPOS_getRequestDetails_anyWritten(L, requestId) ==
  LET request == L.s_requests[requestId] IN
  IF request = ZeroRequest
  THEN [ok |-> FALSE, error |-> "RequestNotFound", request |-> ZeroRequest]
  ELSE [ok |-> TRUE, error |-> "", request |-> request]

\* getRequestDetails: reverts for a record without a requester
RPOS_getRequestDetails(L, requestId) ==
  LET request == L.s_requests[requestId] IN
  IF request.requester = ZeroAddress
  THEN [ok |-> FALSE, error |-> "RequestNotFound", request |-> ZeroRequest]
  ELSE [ok |-> TRUE, error |-> "", request |-> request]

\* getRequestCount() of RandomProof: requestIds.length
RP_getRequestCount(L) == Len(L.requestIds)

\* the public counter of RandomProofOptimized
RPO_requestCount(L) == L.requestCount

\* the request count of the contracts that keep one
Counting == {"RandomProof", "RandomProofOptimized"}
GetRequestCount(c, L) ==
  IF c = "RandomProof" THEN RP_getRequestCount(L) ELSE RPO_requestCount(L)

\* the lookup by entity hash of the deployed contract
GetByEntityHash(c, L, entityHash) ==
  CASE c = "RandomProof" -> RP_getRequestByEntityHash(L, entityHash)
    [] c = "RandomProofOptimized" -> RPO_getRequestByEntityHash(L, entityHash)
    [] c = "RandomProofOptimizedString" -> RPOS_getRandomnessForEntityHash(L, entityHash)
    [] c = "RandomProofString" -> RPS_getRandomnessForEntityHash(L, entityHash)

\* isEntityProcessed, isEntityHashProcessed: the existence check
RP_isEntityProcessed(L, entityHash) == L.processedEntityHashes[entityHash]

RPO_isEntityProcessed(L, entityHash) == L.processedEntityHashes[entityHash]

\* an existence check that answers true only once the request is fulfilled
RPOS_isEntityHashProcessed_whenFulfilled(L, entityHash) ==
  L.s_requests[L.entityHashToRequestId[keccak256(entityHash)]].fulfilled

RPOS_isEntityHashProcessed(L, entityHash) ==
  L.entityHashToRequestId[keccak256(entityHash)] # 0

RPS_isEntityHashProcessed(L, entityHash) == L.processedEntityHashes[entityHash]

IsEntityProcessed(c, L, entityHash) ==
  CASE c = "RandomProof" -> RP_isEntityProcessed(L, entityHash)
    [] c = "RandomProofOptimized" -> RPO_isEntityProcessed(L, entityHash)
    [] c = "RandomProofOptimizedString" -> RPOS_isEntityHashProcessed(L, entityHash)
    [] c = "RandomProofString" -> RPS_isEntityHashProcessed(L, entityHash)

\* one requestRandomness transaction against a coordinator that returns
\* without calling back: checks, the coordinator call, the stores, the event
RequestTx(c, L, entityHash, salt, sender) ==
  LET pre == Precall(c, L, entityHash) IN
  IF ~pre.ok THEN [ok |-> FALSE, error |-> pre.error, ret |-> 0, L |-> L]
  ELSE LET co == requestRandomWords(pre.L, "consumer") IN
       [ok |-> TRUE, error |-> "", ret |-> co.requestId,
        L |-> Postcall(c, co.L, co.requestId, entityHash, salt, sender)]

\* a mined transaction moves the chain to the next block
Mine(L) == [L EXCEPT !.blockNumber = @ + 1]

\* the entity hashes the deployed contract's ABI accepts
AcceptedInputs(c) == IF c \in StringKeyed THEN HashInputs ELSE HashInputs \ {"short"}

requestRandomness(entityHash, salt, sender) ==
  /\ blockNumber <= MaxTx
  /\ entityHash \in AcceptedInputs(contract)
  /\ LET tx == RequestTx(contract, LedgerState, entityHash, salt, sender) IN
     /\ SetLedger(IF tx.ok THEN Mine(tx.L) ELSE LedgerState)
     /\ call' = [op |-> "requestRandomness", entityHash |-> entityHash,
                 requestId |-> tx.ret, ok |-> tx.ok, error |-> tx.error,
                 reentry |-> "none"]
  /\ UNCHANGED <<contract, mathVars, api3Vars, workflowVars, shuffleVars, pollVars, chainlinkVars, saltVars, detVars, submitVars>>

\* the coordinator's fulfillRandomWords(requestId, consumer, randomWords): the
\* delivery path of the oracle; the mock does not forget a delivered request
fulfillRandomWords(requestId, word) ==
  /\ blockNumber <= MaxTx
  /\ LET L == LedgerState
         tx == IF ~ConsumerMatches(L, requestId, "consumer")
               THEN [ok |-> FALSE, error |-> "Wrong consumer", L |-> L]
               ELSE FulfillRandomWords(contract, L, requestId, word) IN
     /\ SetLedger(IF tx.ok THEN Mine(tx.L) ELSE L)
     /\ call' = [op |-> "fulfillRandomWords", entityHash |-> "",
                 requestId |-> requestId, ok |-> tx.ok, error |-> tx.error,
                 reentry |-> "none"]
  /\ UNCHANGED <<contract, mathVars, api3Vars, workflowVars, shuffleVars, pollVars, chainlinkVars, saltVars, detVars, submitVars>>

\* fulfillRandomWordsWithOverride: the same delivery without the consumer check
fulfillRandomWordsWithOverride(requestId, word) ==
  /\ blockNumber <= MaxTx
  /\ LET L == LedgerState
         tx == FulfillRandomWords(contract, L, requestId, word) IN
     /\ SetLedger(IF tx.ok THEN Mine(tx.L) ELSE L)
     /\ call' = [op |-> "fulfillRandomWordsWithOverride", entityHash |-> "",
                 requestId |-> requestId, ok |-> tx.ok, error |-> tx.error,
                 reentry |-> "none"]
  /\ UNCHANGED <<contract, mathVars, api3Vars, workflowVars, shuffleVars, pollVars, chainlinkVars, saltVars, detVars, submitVars>>

LedgerInit ==
  /\ contract \in Contracts
  /\ s_requests = [id \in RequestIds |-> ZeroRequest]
  /\ entityHashToRequestId = [k \in Keys |-> 0]
  /\ processedEntityHashes = [k \in Keys |-> FALSE]
  /\ requestIds = <<>>
  /\ requestCount = 0
  /\ lastRequestId = 0
  /\ events = <<>>
  /\ s_nextRequestId = 1
  /\ s_consumers = [id \in RequestIds |-> ZeroAddress]
  /\ blockNumber = 1
  /\ call = NoCall

LedgerNext ==
  \/ \E h \in HashInputs, s \in Salts, u \in Users : requestRandomness(h, s, u)
  \/ \E id \in RequestIds, w \in RandomWords : fulfillRandomWords(id, w)
  \/ \E id \in RequestIds, w \in RandomWords : fulfillRandomWordsWithOverride(id, w)

\* ------------------------------------------------------------------------
\* A coordinator that calls back (the attack MaliciousReentrant stages)
\* ------------------------------------------------------------------------
\* requestRandomness whose coordinator, inside requestRandomWords, re-enters
\* requestRandomness(entityHash2, salt2) in a try/catch before it returns
ReentrantRequestTx(c, L, entityHash, salt, sender, entityHash2, salt2) ==
  LET pre == Precall(c, L, entityHash) IN
  IF ~pre.ok THEN [ok |-> FALSE, error |-> pre.error, ret |-> 0, L |-> L, inner |-> "none"]
  ELSE LET co == requestRandomWords(pre.L, "consumer")
           inner == RequestTx(c, co.L, entityHash2, salt2, CoordinatorAddress) IN
       [ok |-> TRUE, error |-> "", ret |-> co.requestId,
        L |-> Postcall(c, inner.L, co.requestId, entityHash, salt, sender),
        inner |-> IF inner.ok THEN "accepted" ELSE "rejected"]

requestRandomnessReentered(entityHash, salt, sender, entityHash2, salt2) ==
  /\ blockNumber <= MaxTx
  /\ s_nextRequestId < MaxTx
  /\ entityHash \in AcceptedInputs(contract)
  /\ entityHash2 \in AcceptedInputs(contract)
  /\ LET tx == ReentrantRequestTx(contract, LedgerState, entityHash, salt, sender,
                                  entityHash2, salt2) IN
     /\ SetLedger(IF tx.ok THEN Mine(tx.L) ELSE LedgerState)
     /\ call' = [op |-> "requestRandomness", entityHash |-> entityHash,
                 requestId |-> tx.ret, ok |-> tx.ok, error |-> tx.error,
                 reentry |-> tx.inner]
  /\ UNCHANGED <<contract, mathVars, api3Vars, workflowVars, shuffleVars, pollVars, chainlinkVars, saltVars, detVars, submitVars>>

ReentrantNext ==
  \/ LedgerNext
  \/ \E h \in HashInputs, s \in Salts, u \in Users, h2 \in HashInputs, s2 \in Salts :
        requestRandomnessReentered(h, s, u, h2, s2)

\* ------------------------------------------------------------------------
\* MathRandomDriver (src/utils/mathRandomDriver.ts)
\*
\* Strings are sequences of character codes.  The clock counts milliseconds
\* from the moment the page was first opened.  localStorage is taken to be
\* reliable: setItem stores and getItem gives back what was stored.
\* ------------------------------------------------------------------------
MaxTicks == 3

\* entity hashes handed to the driver: "" and "ab"
EntityHashes == {<<>>, <<97, 98>>}
SaltBytes32 == {"0x01", "0x02"}
\* Math.random().toString(36).substring(2, 9)
RandomParts == {"k3j9x2a", "p0q8w7e"}
\* Math.floor(Math.random() * 1000000)
RandomDraws == {0, 1}

EmptyMap == <<>>

MapHas(m, k) == k \in DOMAIN m

MapSet(m, k, v) == [x \in (DOMAIN m) \cup {k} |-> IF x = k THEN v ELSE m[x]]

MapDelete(m, k) == [x \in (DOMAIN m) \ {k} |-> m[x]]

\* entityHash.slice(0, 16)
Slice16(s) == IF Len(s) <= 16 THEN s ELSE SubSeq(s, 1, 16)

\* `0x${timestamp.toString(16)}${randomPart}`
TransactionId(timestamp, randomPart) ==
  [kind |-> "request", timestamp |-> timestamp, randomPart |-> randomPart,
   hashPrefix |-> <<>>]

\* `0x${entityHash.slice(0, 16)}_completed`
CompletedTransactionId(entityHash) ==
  [kind |-> "completed", timestamp |-> 0, randomPart |-> "",
   hashPrefix |-> Slice16(entityHash)]

NoTransactionId ==
  [kind |-> "none", timestamp |-> 0, randomPart |-> "", hashPrefix |-> <<>>]

\* the loop  hash = ((hash << 5) - hash) + char; hash = hash & hash
\* (the conversion to 32 bits changes nothing below 2^31, which the hashes
\* of EntityHashes stay under)
RECURSIVE StringHash(_, _)
StringHash(hash, s) ==
  IF s = <<>> THEN hash
  ELSE StringHash(((hash * 32) - hash) + Head(s), Tail(s))

Abs(x) == IF x < 0 THEN -x ELSE x

NullItem == [present |-> FALSE, value |-> EmptyMap]

\* persistData(): both maps are written, whole
persistData_resultsLost(pending, completed) ==
  [results |-> localStorage.results,
   pending |-> [present |-> TRUE, value |-> pending]]

persistData(pending, completed) ==
  [results |-> [present |-> TRUE, value |-> completed],
   pending |-> [present |-> TRUE, value |-> pending]]

\* loadPersistedData(): an item that is absent leaves the fresh Map empty
loadPersistedData(item) == IF item.present THEN item.value ELSE EmptyMap

NoMathCall ==
  [op |-> "none", entityHash |-> <<>>, transactionId |-> NoTransactionId,
   randomness |-> 0]

\* history of the values handed out, for the properties
NoteRequest(h) ==
  /\ requested' = requested \cup {h}
  /\ firstFetched' =
       IF MapHas(firstFetched, h)
       THEN [firstFetched EXCEPT ![h].requestedSince = TRUE]
       ELSE firstFetched

NoteFetch(h, value) ==
  /\ requested' = requested
  /\ firstFetched' =
       IF value > 0 /\ ~MapHas(firstFetched, h)
       THEN MapSet(firstFetched, h,
                   [value |-> value, requestedSince |-> FALSE,
                    recreatedSince |-> FALSE])
       ELSE firstFetched

NoteConstructor ==
  /\ requested' = requested
  /\ firstFetched' =
       [h \in DOMAIN firstFetched |->
          [firstFetched[h] EXCEPT !.recreatedSince = TRUE]]

Math_requestRandomness(entityHash, saltBytes32, randomPart) ==
  /\ IF MapHas(completedResults, entityHash)
     THEN /\ mathCall' =
               [op |-> "requestRandomness", entityHash |-> entityHash,
                transactionId |->
                  IF MapHas(pendingRequests, entityHash)
                  THEN pendingRequests[entityHash].transactionId
                  ELSE CompletedTransactionId(entityHash),
                randomness |-> 0]
          /\ UNCHANGED <<pendingRequests, localStorage>>
     ELSE LET timestamp == now
              transactionId == TransactionId(timestamp, randomPart)
              pending == MapSet(pendingRequests, entityHash,
                                [transactionId |-> transactionId,
                                 saltBytes32 |-> saltBytes32,
                                 timestamp |-> timestamp])
          IN /\ pendingRequests' = pending
             /\ localStorage' = persistData(pending, completedResults)
             /\ mathCall' =
                  [op |-> "requestRandomness", entityHash |-> entityHash,
                   transactionId |-> transactionId, randomness |-> 0]
  /\ NoteRequest(entityHash)
  /\ UNCHANGED <<completedResults, now>>
  /\ UNCHANGED <<ledgerVars, api3Vars, workflowVars, shuffleVars, pollVars, chainlinkVars, saltVars, detVars, submitVars>>

Math_fetchRandomness(entityHash, draw) ==
  /\ IF MapHas(completedResults, entityHash)
     THEN /\ mathCall' =
               [op |-> "fetchRandomness", entityHash |-> entityHash,
                transactionId |-> NoTransactionId,
                randomness |-> completedResults[entityHash]]
          /\ UNCHANGED <<pendingRequests, completedResults, localStorage>>
     ELSE IF ~MapHas(pendingRequests, entityHash)
     THEN LET randomValue == Abs(StringHash(0, entityHash)) + draw
              completed == MapSet(completedResults, entityHash, randomValue)
          IN /\ completedResults' = completed
             /\ localStorage' = persistData(pendingRequests, completed)
             /\ mathCall' =
                  [op |-> "fetchRandomness", entityHash |-> entityHash,
                   transactionId |-> NoTransactionId,
                   randomness |-> randomValue]
             /\ UNCHANGED pendingRequests
     ELSE IF now - pendingRequests[entityHash].timestamp < 2000
     THEN /\ mathCall' =
               [op |-> "fetchRandomness", entityHash |-> entityHash,
                transactionId |-> NoTransactionId, randomness |-> 0]
          /\ UNCHANGED <<pendingRequests, completedResults, localStorage>>
     ELSE LET randomValue == (Abs(StringHash(0, entityHash)) * 997) + draw
              pending == MapDelete(pendingRequests, entityHash)
              completed == MapSet(completedResults, entityHash, randomValue)
          IN /\ pendingRequests' = pending
             /\ completedResults' = completed
             /\ localStorage' = persistData(pending, completed)
             /\ mathCall' =
                  [op |-> "fetchRandomness", entityHash |-> entityHash,
                   transactionId |-> NoTransactionId,
                   randomness |-> randomValue]
  /\ NoteFetch(entityHash, mathCall'.randomness)
  /\ UNCHANGED now
  /\ UNCHANGED <<ledgerVars, api3Vars, workflowVars, shuffleVars, pollVars, chainlinkVars, saltVars, detVars, submitVars>>

\* a page refresh: the module is loaded again and constructs a new driver
Math_constructor ==
  /\ completedResults' = loadPersistedData(localStorage.results)
  /\ pendingRequests' = loadPersistedData(localStorage.pending)
  /\ mathCall' = [NoMathCall EXCEPT !.op = "constructor"]
  /\ NoteConstructor
  /\ UNCHANGED <<localStorage, now>>
  /\ UNCHANGED <<ledgerVars, api3Vars, workflowVars, shuffleVars, pollVars, chainlinkVars, saltVars, detVars, submitVars>>

\* a second passes
Math_tick ==
  /\ now < MaxTicks * 1000
  /\ now' = now + 1000
  /\ mathCall' = [NoMathCall EXCEPT !.op = "tick"]
  /\ UNCHANGED <<pendingRequests, completedResults, localStorage,
                 requested, firstFetched>>
  /\ UNCHANGED <<ledgerVars, api3Vars, workflowVars, shuffleVars, pollVars, chainlinkVars, saltVars, detVars, submitVars>>

MathInit ==
  /\ pendingRequests = EmptyMap
  /\ completedResults = EmptyMap
  /\ localStorage = [results |-> NullItem, pending |-> NullItem]
  /\ now = 0
  /\ mathCall = NoMathCall
  /\ requested = {}
  /\ firstFetched = EmptyMap

MathNext ==
  \/ \E h \in EntityHashes, s \in SaltBytes32, r \in RandomParts :
        Math_requestRandomness(h, s, r)
  \/ \E h \in EntityHashes, d \in RandomDraws : Math_fetchRandomness(h, d)
  \/ Math_constructor
  \/ Math_tick

\* ------------------------------------------------------------------------
\* API3QRNGDriver (examples/drivers: class API3QRNGDriver)
\*
\* The QRNG service is the environment: it answers a POST /v1/request with a
\* new request id or an error, completes or fails requests on its own, and
\* answers GET /v1/status/<id> with what it holds.  A random number is a hex
\* string: an optional "0x" and a sequence of digits, 16 standing for a
\* character that is no hex digit.  All numbers of the model are below 2^53.
\* ------------------------------------------------------------------------
MaxQrngRequests == 1

retryAttempts == 3
retryDelay == 1000

ApiSalts == {"s1", "toolong"}
SaltLen(s) == IF s = "toolong" THEN 1001 ELSE 2

\* what one POST /v1/request can come to
PostOutcomes == {"ok", "401", "503"}
\* what one GET /v1/status/<id> can come to
GetOutcomes == {"ok", "timeout"}

NoRandomNumber == [prefix |-> FALSE, digits |-> <<>>]
\* "0x2a", "0x2b", "0x0", "zz", "0x"
RandomNumbers ==
  { [prefix |-> TRUE, digits |-> <<2, 10>>],
    [prefix |-> TRUE, digits |-> <<2, 11>>],
    [prefix |-> TRUE, digits |-> <<0>>],
    [prefix |-> FALSE, digits |-> <<16, 16>>],
    [prefix |-> TRUE, digits |-> <<>>],
    NoRandomNumber }

NaN == -1

\* parseInt(hex, 16): the digits up to the first character that is none
RECURSIVE ParseInt16(_, _, _)
ParseInt16(digits, value, seen) ==
  IF digits = <<>> \/ Head(digits) > 15
  THEN IF seen THEN value ELSE NaN
  ELSE ParseInt16(Tail(digits), (value * 16) + Head(digits), TRUE)

\* parseRandomNumber(randomHex): the value, or a throw
parseRandomNumber(randomHex) ==
  LET value == ParseInt16(randomHex.digits, 0, FALSE)
  IN IF value = NaN \/ value <= 0
     THEN [ok |-> FALSE, value |-> 0]
     ELSE [ok |-> TRUE, value |-> value]

\* validateInputs(entityHash, salt): TRUE when it does not throw
validateInputs(entityHash, salt) ==
  /\ HashLen(entityHash) = 64
  /\ ~(SaltLen(salt) > 1000)

\* makeAPICall: the error a response status is turned into
ApiError(outcome) ==
  CASE outcome = "401" -> "Invalid API key"
    [] outcome = "429" -> "Rate limit exceeded"
    [] outcome = "503" -> "API3 QRNG service temporarily unavailable"
    [] outcome = "timeout" -> "Request timeout"
    [] OTHER -> ""

\* the retry loop of requestRandomness: the attempt that succeeded (0 when
\* none did), the attempts made, the time slept between them, the last error
\* a retry loop that waits retryDelay after every failure, whatever the attempt
RECURSIVE RetryLoop_flatDelay(_, _, _, _)
RetryLoop_flatDelay(attempt, outcomes, slept, lastError) ==
  IF ~(attempt < retryAttempts)
  THEN [ok |-> FALSE, attempts |-> attempt, slept |-> slept,
        error |-> lastError]
  ELSE IF outcomes[attempt + 1] = "ok"
  THEN [ok |-> TRUE, attempts |-> attempt + 1, slept |-> slept,
        error |-> ""]
  ELSE RetryLoop_flatDelay(attempt + 1, outcomes, slept + retryDelay,
                           ApiError(outcomes[attempt + 1]))

RECURSIVE RetryLoop(_, _, _, _)
RetryLoop(attempt, outcomes, slept, lastError) ==
  IF ~(attempt < retryAttempts)
  THEN [ok |-> FALSE, attempts |-> attempt, slept |-> slept,
        error |-> lastError]
  ELSE IF outcomes[attempt + 1] = "ok"
  THEN [ok |-> TRUE, attempts |-> attempt + 1, slept |-> slept,
        error |-> ""]
  ELSE RetryLoop(attempt + 1, outcomes,
                 IF attempt < retryAttempts - 1
                 THEN slept + (retryDelay * (attempt + 1))
                 ELSE slept,
                 ApiError(outcomes[attempt + 1]))

NoApiCall ==
  [op |-> "none", entityHash |-> "", ok |-> TRUE, requestId |-> 0,
   randomness |-> 0, attempts |-> 0, slept |-> 0, error |-> ""]

API3_requestRandomness(entityHash, salt, outcomes) ==
  /\ qrngNextId <= MaxQrngRequests
  /\ IF ~validateInputs(entityHash, salt)
     THEN /\ api3Call' =
               [NoApiCall EXCEPT !.op = "requestRandomness",
                                 !.entityHash = entityHash,
                                 !.ok = FALSE,
                                 !.error = "Invalid input"]
          /\ UNCHANGED <<api3_pendingRequests, api3_entityHashToRequestId,
                         qrng, qrngNextId>>
     ELSE LET loop == RetryLoop(0, outcomes, 0, "")
              requestId == qrngNextId
          IN IF loop.ok
             THEN \* makeQRNGRequest
                  /\ qrng' = MapSet(qrng, requestId,
                                    [status |-> "pending",
                                     randomNumber |-> NoRandomNumber])
                  /\ qrngNextId' = qrngNextId + 1
                  /\ api3_pendingRequests' =
                       MapSet(api3_pendingRequests, requestId,
                              [requestId |-> requestId,
                               entityHash |-> entityHash,
                               salt |-> salt,
                               status |-> "pending"])
                  /\ api3_entityHashToRequestId' =
                       MapSet(api3_entityHashToRequestId, entityHash,
                              requestId)
                  /\ api3Call' =
                       [op |-> "requestRandomness", entityHash |-> entityHash,
                        ok |-> TRUE, requestId |-> requestId,
                        randomness |-> 0, attempts |-> loop.attempts,
                        slept |-> loop.slept, error |-> ""]
             ELSE /\ api3Call' =
                       [op |-> "requestRandomness", entityHash |-> entityHash,
                        ok |-> FALSE, requestId |-> 0,
                        randomness |-> 0, attempts |-> loop.attempts,
                        slept |-> loop.slept, error |-> loop.error]
                  /\ UNCHANGED <<api3_pendingRequests,
                                 api3_entityHashToRequestId, qrng, qrngNextId>>
  /\ UNCHANGED api3FirstFetched
  /\ UNCHANGED <<ledgerVars, mathVars, workflowVars, shuffleVars, pollVars, chainlinkVars, saltVars, detVars, submitVars>>

\* a fetchRandomness whose parse of the random number is outside the try
\* block: a number that does not parse reaches the caller as NaN
FetchResult_parseEscapes(entityHash, outcome) ==
  LET unchanged(value) ==
        [randomness |-> value, pending |-> api3_pendingRequests,
         byHash |-> api3_entityHashToRequestId]
  IN IF ~MapHas(api3_entityHashToRequestId, entityHash) \/ outcome # "ok"
     THEN unchanged(0)
     ELSE LET response == qrng[api3_entityHashToRequestId[entityHash]]
          IN IF response.status = "completed"
                /\ response.randomNumber # NoRandomNumber
             THEN LET parsed == parseRandomNumber(response.randomNumber)
                  IN unchanged(IF parsed.ok THEN parsed.value ELSE NaN)
             ELSE unchanged(0)

\* fetchRandomness on a driver holding these two maps, against a service
\* holding these requests: the value returned and the two maps left
FetchResultOn(pendingRequests_, entityHashToRequestId_, service, entityHash, outcome) ==
  LET unchanged(value) ==
        [randomness |-> value, pending |-> pendingRequests_,
         byHash |-> entityHashToRequestId_]
  IN IF ~MapHas(entityHashToRequestId_, entityHash)
     THEN unchanged(0)
     ELSE LET requestId == entityHashToRequestId_[entityHash]
              response == service[requestId]
              cleaned(value) ==
                [randomness |-> value,
                 pending |-> MapDelete(pendingRequests_, requestId),
                 byHash |-> MapDelete(entityHashToRequestId_, entityHash)]
          IN IF outcome # "ok"
             THEN unchanged(0)
             ELSE CASE response.status = "completed" ->
                         IF response.randomNumber = NoRandomNumber
                         THEN unchanged(0)
                         ELSE LET parsed ==
                                    parseRandomNumber(response.randomNumber)
                              IN IF parsed.ok THEN cleaned(parsed.value)
                                 ELSE cleaned(0)
                    [] response.status = "pending" -> unchanged(0)
                    [] response.status = "failed" -> cleaned(0)
                    [] OTHER -> unchanged(0)

\* the value fetchRandomness returns and the two maps it leaves
FetchResult(entityHash, outcome) ==
  FetchResultOn(api3_pendingRequests, api3_entityHashToRequestId, qrng,
                entityHash, outcome)

API3_fetchRandomness(entityHash, outcome) ==
  LET result == FetchResult(entityHash, outcome)
  IN /\ api3_pendingRequests' = result.pending
     /\ api3_entityHashToRequestId' = result.byHash
     /\ api3Call' =
          [NoApiCall EXCEPT !.op = "fetchRandomness",
                            !.entityHash = entityHash,
                            !.randomness = result.randomness]
     /\ api3FirstFetched' =
          IF result.randomness > 0 /\ ~MapHas(api3FirstFetched, entityHash)
          THEN MapSet(api3FirstFetched, entityHash, result.randomness)
          ELSE api3FirstFetched
     /\ UNCHANGED <<qrng, qrngNextId>>
     /\ UNCHANGED <<ledgerVars, mathVars, workflowVars, shuffleVars, pollVars, chainlinkVars, saltVars, detVars, submitVars>>

\* the service finishes a request
QRNG_complete(requestId, randomNumber) ==
  /\ MapHas(qrng, requestId)
  /\ qrng[requestId].status = "pending"
  /\ qrng' = MapSet(qrng, requestId,
                    [status |-> "completed", randomNumber |-> randomNumber])
  /\ api3Call' = [NoApiCall EXCEPT !.op = "service"]
  /\ UNCHANGED <<api3_pendingRequests, api3_entityHashToRequestId,
                 qrngNextId, api3FirstFetched>>
  /\ UNCHANGED <<ledgerVars, mathVars, workflowVars, shuffleVars, pollVars, chainlinkVars, saltVars, detVars, submitVars>>

\* the service gives a request up
QRNG_fail(requestId) ==
  /\ MapHas(qrng, requestId)
  /\ qrng[requestId].status = "pending"
  /\ qrng' = MapSet(qrng, requestId,
                    [status |-> "failed", randomNumber |-> NoRandomNumber])
  /\ api3Call' = [NoApiCall EXCEPT !.op = "service"]
  /\ UNCHANGED <<api3_pendingRequests, api3_entityHashToRequestId,
                 qrngNextId, api3FirstFetched>>
  /\ UNCHANGED <<ledgerVars, mathVars, workflowVars, shuffleVars, pollVars, chainlinkVars, saltVars, detVars, submitVars>>

Api3Init ==
  /\ api3_pendingRequests = EmptyMap
  /\ api3_entityHashToRequestId = EmptyMap
  /\ qrng = EmptyMap
  /\ qrngNextId = 1
  /\ api3Call = NoApiCall
  /\ api3FirstFetched = EmptyMap

Api3Next ==
  \/ \E h \in HashInputs, s \in ApiSalts,
        outcomes \in [1..retryAttempts -> PostOutcomes] :
        API3_requestRandomness(h, s, outcomes)
  \/ \E h \in HashInputs, o \in GetOutcomes : API3_fetchRandomness(h, o)
  \/ \E id \in 1..MaxQrngRequests, n \in RandomNumbers : QRNG_complete(id, n)
  \/ \E id \in 1..MaxQrngRequests : QRNG_fail(id)

\* ------------------------------------------------------------------------
\* API3QRNGDriver.cancelRequest and ResilientAPI3Driver (the subclass with
\* fetchRandomnessWithRetry)
\*
\* While fetchRandomnessWithRetry sleeps between two polls the service may
\* complete or fail the request it polls; each poll meets one such step of
\* the service and one outcome of its GET.
\* ------------------------------------------------------------------------
maxRetries == 3
baseDelay == 1000

\* cancelRequest(requestId): POST /v1/cancel/<id>, then forget the request
API3_cancelRequest(requestId, outcome) ==
  /\ IF outcome = "ok"
     THEN /\ api3_pendingRequests' = MapDelete(api3_pendingRequests, requestId)
          /\ qrng' = IF MapHas(qrng, requestId) /\ qrng[requestId].status = "pending"
                     THEN MapSet(qrng, requestId,
                                 [status |-> "cancelled",
                                  randomNumber |-> NoRandomNumber])
                     ELSE qrng
     ELSE UNCHANGED <<api3_pendingRequests, qrng>>
  /\ api3Call' = [NoApiCall EXCEPT !.op = "cancelRequest",
                                   !.requestId = requestId,
                                   !.ok = (outcome = "ok"),
                                   !.error = ApiError(outcome)]
  /\ UNCHANGED <<api3_entityHashToRequestId, qrngNextId, api3FirstFetched>>
  /\ UNCHANGED <<ledgerVars, mathVars, workflowVars, shuffleVars, pollVars,
                 chainlinkVars, saltVars, detVars, submitVars>>

\* what the service does to the polled request before one poll
ServiceSteps ==
  {[kind |-> "none", randomNumber |-> NoRandomNumber],
   [kind |-> "fail", randomNumber |-> NoRandomNumber],
   [kind |-> "complete", randomNumber |-> [prefix |-> TRUE, digits |-> <<2, 10>>]]}

\* one poll: its GET times out, or it is answered after the service's step
PollSteps ==
  {[service |-> CHOOSE sv \in ServiceSteps : sv.kind = "none",
    outcome |-> "timeout"]}
    \cup [service : ServiceSteps, outcome : {"ok"}]

ServiceAfter(service, entityHashToRequestId_, entityHash, step) ==
  IF step.kind = "none" \/ ~MapHas(entityHashToRequestId_, entityHash)
  THEN service
  ELSE LET requestId == entityHashToRequestId_[entityHash]
       IN IF ~MapHas(service, requestId) \/ service[requestId].status # "pending"
          THEN service
          ELSE MapSet(service, requestId,
                      [status |-> IF step.kind = "fail" THEN "failed"
                                  ELSE "completed",
                       randomNumber |-> step.randomNumber])

\* a loop that sleeps baseDelay * (retries + 1) after a zero result
RECURSIVE WithRetryLoop_linear(_, _, _, _, _, _)
WithRetryLoop_linear(retries, steps, entityHash, d, slept, polled) ==
  IF ~(retries < maxRetries)
  THEN [ok |-> FALSE, randomness |-> 0, slept |-> slept, polled |-> polled,
        d |-> d]
  ELSE LET service == ServiceAfter(d.service, d.byHash, entityHash,
                                   steps[retries + 1].service)
           result == FetchResultOn(d.pending, d.byHash, service, entityHash,
                                   steps[retries + 1].outcome)
           after == [pending |-> result.pending, byHash |-> result.byHash,
                     service |-> service]
       IN IF result.randomness > 0
          THEN [ok |-> TRUE, randomness |-> result.randomness,
                slept |-> slept, polled |-> Append(polled, result.randomness),
                d |-> after]
          ELSE WithRetryLoop_linear(retries + 1, steps, entityHash, after,
                                    slept + (baseDelay * (retries + 1)),
                                    Append(polled, result.randomness))

\* the loop of fetchRandomnessWithRetry: whether it returned, the value, the
\* time slept, what each poll returned, the driver and the service it leaves
RECURSIVE WithRetryLoop(_, _, _, _, _, _)
WithRetryLoop(retries, steps, entityHash, d, slept, polled) ==
  IF ~(retries < maxRetries)
  THEN [ok |-> FALSE, randomness |-> 0, slept |-> slept, polled |-> polled,
        d |-> d]
  ELSE LET service == ServiceAfter(d.service, d.byHash, entityHash,
                                   steps[retries + 1].service)
           result == FetchResultOn(d.pending, d.byHash, service, entityHash,
                                   steps[retries + 1].outcome)
           after == [pending |-> result.pending, byHash |-> result.byHash,
                     service |-> service]
       IN IF result.randomness > 0
          THEN [ok |-> TRUE, randomness |-> result.randomness,
                slept |-> slept, polled |-> Append(polled, result.randomness),
                d |-> after]
          ELSE WithRetryLoop(retries + 1, steps, entityHash, after,
                             slept + (baseDelay * (2 ^ retries)),
                             Append(polled, result.randomness))

Resilient_fetchRandomnessWithRetry(entityHash, steps) ==
  \E loop \in {WithRetryLoop(0, steps, entityHash,
                              [pending |-> api3_pendingRequests,
                               byHash |-> api3_entityHashToRequestId,
                               service |-> qrng], 0, <<>>)} :
     /\ api3_pendingRequests' = loop.d.pending
     /\ api3_entityHashToRequestId' = loop.d.byHash
     /\ qrng' = loop.d.service
     /\ api3Call' =
          [op |-> "fetchRandomnessWithRetry", entityHash |-> entityHash,
           ok |-> loop.ok, requestId |-> 0, randomness |-> loop.randomness,
           attempts |-> Len(loop.polled), slept |-> loop.slept,
           error |-> IF loop.ok THEN ""
                     ELSE "Failed to get randomness after retries",
           polled |-> loop.polled]
     /\ api3FirstFetched' =
          IF loop.randomness > 0 /\ ~MapHas(api3FirstFetched, entityHash)
          THEN MapSet(api3FirstFetched, entityHash, loop.randomness)
          ELSE api3FirstFetched
     /\ UNCHANGED qrngNextId
     /\ UNCHANGED <<ledgerVars, mathVars, workflowVars, shuffleVars, pollVars,
                    chainlinkVars, saltVars, detVars, submitVars>>

\* the hashes polled: the ones a request can have been made for
PolledHashes == {h \in HashInputs : HashLen(h) = 64}

\* what the polls of one fetchRandomnessWithRetry meet
PollPlans == [1..maxRetries -> PollSteps]

\* the driver with its cancelRequest
CancelNext ==
  \/ Api3Next
  \/ \E id \in 1..MaxQrngRequests, o \in PostOutcomes : API3_cancelRequest(id, o)

ResilientNext ==
  \/ Api3Next
  \/ \E h \in PolledHashes, steps \in PollPlans :
        Resilient_fetchRandomnessWithRetry(h, steps)

\* ------------------------------------------------------------------------
\* ChainlinkVRFDriver (examples/drivers: class ChainlinkVRFDriver)
\*
\* The chain is the environment: a requestRandomWords transaction is mined
\* with a RandomWordsRequested log or fails, and the oracle answers a request
\* in a transaction of its own, whose receipt carries RandomWordsFulfilled.
\* A coordinator that answers within the requesting transaction (as a test
\* coordinator may) puts that log into the receipt of the request.  A
\* transaction hash is the position of the transaction in the chain.
\* ------------------------------------------------------------------------
\* transactions mined in one behaviour
MaxChainTx == 3

ContractAddress == "contract"

\* what one requestRandomness meets: the wallet has no funds, the contract
\* call fails, the transaction is mined
RequestOutcomes == {"insufficient", "reverted", "mined"}
\* what one getTransactionReceipt comes to
ReceiptOutcomes == {"ok", "null", "network"}

\* /^[a-f0-9]+$/i on the entity hashes of the model
IsHex(entityHash) == entityHash \in {"h1", "h2", "short"}

\* validateInputs(entityHash, salt) of this driver: TRUE when it does not throw
CL_validateInputs(entityHash, salt) ==
  /\ HashLen(entityHash) = 64
  /\ IsHex(entityHash)
  /\ ~(SaltLen(salt) > 1000)

FulfilledLog(requestId, randomWord, wellFormed) ==
  [event |-> "RandomWordsFulfilled", address |-> ContractAddress,
   requestId |-> requestId, randomWord |-> randomWord,
   wellFormed |-> wellFormed]

RequestedLog(requestId) ==
  [event |-> "RandomWordsRequested", address |-> ContractAddress,
   requestId |-> requestId, randomWord |-> 0, wellFormed |-> TRUE]

\* findVRFFulfillmentEvent(receipt): the first RandomWordsFulfilled log of the
\* contract in this receipt, 0 standing for null
findVRFFulfillmentEvent(receipt) ==
  LET matching == {i \in 1..Len(receipt.logs) :
                     /\ receipt.logs[i].event = "RandomWordsFulfilled"
                     /\ receipt.logs[i].address = ContractAddress}
  IN IF matching = {} THEN 0
     ELSE CHOOSE i \in matching : \A j \in matching : i <= j

\* extractRandomNumber(event): the word, or a throw
extractRandomNumber(event) ==
  IF ~event.wellFormed \/ event.randomWord = 0
  THEN [ok |-> FALSE, value |-> 0]
  ELSE [ok |-> TRUE, value |-> event.randomWord]

NoChainlinkCall ==
  [op |-> "none", entityHash |-> "", ok |-> TRUE, transactionId |-> 0,
   randomness |-> 0, error |-> ""]

\* requestRandomness: validate, check the balance, send the transaction, wait
\* for its receipt, remember its hash
CL_requestRandomness(entityHash, salt, outcome, inlineWord) ==
  /\ Len(chain) < MaxChainTx
  /\ IF ~CL_validateInputs(entityHash, salt) \/ outcome # "mined"
     THEN /\ chainlinkCall' =
               [NoChainlinkCall EXCEPT
                  !.op = "requestRandomness", !.entityHash = entityHash,
                  !.ok = FALSE,
                  !.error = IF ~CL_validateInputs(entityHash, salt)
                            THEN "VRF request failed: invalid input"
                            ELSE IF outcome = "insufficient"
                            THEN "VRF request failed: Insufficient balance"
                            ELSE "VRF request failed"]
          /\ UNCHANGED <<entityHashToTxId, chain, vrfRequests>>
     ELSE LET txHash == Len(chain) + 1
              requestId == Len(vrfRequests) + 1
              answered == inlineWord \in RandomWords
          IN /\ chain' = Append(chain,
                   [logs |-> <<RequestedLog(requestId)>> \o
                             (IF answered
                              THEN <<FulfilledLog(requestId, inlineWord, TRUE)>>
                              ELSE <<>>)])
             /\ vrfRequests' = Append(vrfRequests,
                   [entityHash |-> entityHash, fulfilled |-> answered,
                    randomWord |-> IF answered THEN inlineWord ELSE 0])
             /\ entityHashToTxId' = MapSet(entityHashToTxId, entityHash, txHash)
             /\ chainlinkCall' =
                  [NoChainlinkCall EXCEPT
                     !.op = "requestRandomness", !.entityHash = entityHash,
                     !.transactionId = txHash]
  /\ UNCHANGED <<ledgerVars, mathVars, api3Vars, workflowVars, shuffleVars,
                 pollVars, saltVars, detVars, submitVars>>

\* the value fetchRandomness returns, with the throws it catches turned to 0
CL_FetchResult(entityHash, outcome) ==
  IF ~MapHas(entityHashToTxId, entityHash) THEN 0
  ELSE IF outcome # "ok" THEN 0
  ELSE LET receipt == chain[entityHashToTxId[entityHash]]
           found == findVRFFulfillmentEvent(receipt)
       IN IF found = 0 THEN 0
          ELSE LET randomNumber == extractRandomNumber(receipt.logs[found])
               IN IF randomNumber.ok THEN randomNumber.value ELSE 0

CL_fetchRandomness(entityHash, outcome) ==
  /\ chainlinkCall' =
       [NoChainlinkCall EXCEPT
          !.op = "fetchRandomness", !.entityHash = entityHash,
          !.randomness = CL_FetchResult(entityHash, outcome)]
  /\ UNCHANGED <<entityHashToTxId, chain, vrfRequests>>
  /\ UNCHANGED <<ledgerVars, mathVars, api3Vars, workflowVars, shuffleVars,
                 pollVars, saltVars, detVars, submitVars>>

\* the oracle answers a request in a transaction of its own
VRF_fulfill(requestId, randomWord, wellFormed) ==
  /\ Len(chain) < MaxChainTx
  /\ requestId \in 1..Len(vrfRequests)
  /\ ~vrfRequests[requestId].fulfilled
  /\ chain' = Append(chain,
        [logs |-> <<FulfilledLog(requestId, randomWord, wellFormed)>>])
  /\ vrfRequests' = [vrfRequests EXCEPT
                       ![requestId] = [@ EXCEPT !.fulfilled = TRUE,
                                                !.randomWord = randomWord]]
  /\ chainlinkCall' = [NoChainlinkCall EXCEPT !.op = "oracle"]
  /\ UNCHANGED entityHashToTxId
  /\ UNCHANGED <<ledgerVars, mathVars, api3Vars, workflowVars, shuffleVars,
                 pollVars, saltVars, detVars, submitVars>>

ChainlinkInit ==
  /\ entityHashToTxId = EmptyMap
  /\ chain = <<>>
  /\ vrfRequests = <<>>
  /\ chainlinkCall = NoChainlinkCall

ChainlinkNext ==
  \/ \E h \in HashInputs, s \in ApiSalts, o \in RequestOutcomes,
        w \in RandomWords \cup {NaN} : CL_requestRandomness(h, s, o, w)
  \/ \E h \in HashInputs, o \in ReceiptOutcomes : CL_fetchRandomness(h, o)
  \/ \E id \in 1..MaxChainTx, w \in RandomWords, f \in BOOLEAN :
        VRF_fulfill(id, w, f)

\* ------------------------------------------------------------------------
\* The draw workflow: InputForm.vue, HomeView.vue, ResultsView.vue,
\* ResultsPage.vue, WinnerSelection.vue, the store, utils/shuffle.ts
\*
\* Strings are sequences of character codes (10 the newline, 32 the space).
\* ------------------------------------------------------------------------
Resolution == 2

\* "b\na", "a\nb", "b\n \na"
InputTexts == {<<98, 10, 97>>, <<97, 10, 98>>, <<98, 10, 32, 10, 97>>}
\* "" and "s"
SaltTexts == {<<>>, <<115>>}
\* fewer winners than entries, and more winners than entries
WinnerCounts == {1, 3}
GistUrls == {"https://gist.github.com/u/abc1"}
TransactionIds == {"0xtx1"}
\* the value the driver ends up giving for the draw
RandomValues == {7}

Whitespace == {9, 10, 11, 12, 13, 32, 160}

\* s.split('\n')
RECURSIVE SplitLines(_, _, _)
SplitLines(s, line, lines) ==
  IF s = <<>> THEN Append(lines, line)
  ELSE IF Head(s) = 10 THEN SplitLines(Tail(s), <<>>, Append(lines, line))
  ELSE SplitLines(Tail(s), Append(line, Head(s)), lines)

split(s) == SplitLines(s, <<>>, <<>>)

RECURSIVE TrimStart(_)
TrimStart(s) ==
  IF s # <<>> /\ Head(s) \in Whitespace THEN TrimStart(Tail(s)) ELSE s

RECURSIVE TrimEnd(_)
TrimEnd(s) ==
  IF s # <<>> /\ s[Len(s)] \in Whitespace
  THEN TrimEnd(SubSeq(s, 1, Len(s) - 1))
  ELSE s

\* s.trim()
trim(s) == TrimEnd(TrimStart(s))

\* lines.filter(line => line.trim())
filterNonBlank(lines) == SelectSeq(lines, LAMBDA line : trim(line) # <<>>)

\* the order of Array.prototype.sort() without a comparator: by code units
RECURSIVE StringBefore(_, _)
StringBefore(a, b) ==
  IF a = <<>> THEN b # <<>>
  ELSE IF b = <<>> THEN FALSE
  ELSE IF Head(a) # Head(b) THEN Head(a) < Head(b)
  ELSE StringBefore(Tail(a), Tail(b))

\* one line put into a sorted list, behind the lines that are not after it
RECURSIVE InsertSorted(_, _)
InsertSorted(sorted, line) ==
  IF sorted = <<>> THEN <<line>>
  ELSE IF StringBefore(line, Head(sorted)) THEN <<line>> \o sorted
  ELSE <<Head(sorted)>> \o InsertSorted(Tail(sorted), line)

RECURSIVE SortFrom(_, _)
SortFrom(lines, sorted) ==
  IF lines = <<>> THEN sorted
  ELSE SortFrom(Tail(lines), InsertSorted(sorted, Head(lines)))

\* lines.sort()
sort(lines) == SortFrom(lines, <<>>)

\* lines.join('\n')
RECURSIVE join(_)
join(lines) ==
  IF lines = <<>> THEN <<>>
  ELSE IF Len(lines) = 1 THEN Head(lines)
  ELSE Head(lines) \o <<10>> \o join(Tail(lines))

\* sha256Hash(data): the digest stands for the hashed string itself, marked
\* as a digest, so that two digests are equal exactly when the strings are
sha256Hash(data) == <<256>> \o data

\* n.toString() for n >= 0
RECURSIVE toString(_)
toString(n) ==
  IF n < 10 THEN <<48 + n>> ELSE toString(n \div 10) \o <<48 + (n % 10)>>

\* parseInt(s): the leading decimal digits, NaN when there are none
RECURSIVE ParseDigits(_, _, _)
ParseDigits(s, value, seen) ==
  IF s = <<>> \/ Head(s) < 48 \/ Head(s) > 57
  THEN IF seen THEN value ELSE NaN
  ELSE ParseDigits(Tail(s), (value * 10) + (Head(s) - 48), TRUE)

parseInt(s) == ParseDigits(TrimStart(s), 0, FALSE)

slice_fromEnd(array, n) ==
  SubSeq(array, IF n < Len(array) THEN Len(array) - n + 1 ELSE 1, Len(array))

\* array.slice(0, n) for n >= 0
slice(array, n) == SubSeq(array, 1, IF n < Len(array) THEN n ELSE Len(array))

\* shuffleArray(array, seed): Fisher-Yates from the last index down.  Every
\* call constructs its generator anew, so its k-th draw is the k-th number
\* of the stream of `seed`: mtStream.draws[seed][k] / mtStream.resolution
Swap_overwrite(array, i, j) == [array EXCEPT ![i] = array[j]]

Swap(array, i, j) == [array EXCEPT ![i] = array[j], ![j] = array[i]]

Draw_sharedGenerator(seed, k) ==
  LET n == Len(mtStream.draws[seed])
  IN mtStream.draws[seed][((k - 1 + shuffleCalls.count) % n) + 1]

Draw(seed, k) == mtStream.draws[seed][k]

RECURSIVE ShuffleFrom(_, _, _, _)
ShuffleFrom(shuffled, i, k, seed) ==
  IF ~(i > 0) THEN shuffled
  ELSE LET j == (Draw(seed, k) * (i + 1)) \div mtStream.resolution
       IN ShuffleFrom(Swap(shuffled, i + 1, j + 1), i - 1, k + 1, seed)

shuffleArray(array, seed) == ShuffleFrom(array, Len(array) - 1, 1, seed)

\* the published gists
DataFile(content) == [filename |-> "entries.txt", content |-> content]
StrictFile == [filename |-> "_strict", content |-> <<>>]
\* a _salt file holding "s\n"
SaltFile == [filename |-> "_salt", content |-> <<115, 10>>]

Gists ==
  { <<DataFile(<<98, 10, 97>>)>>,
    <<DataFile(<<98, 10, 97>>), StrictFile>>,
    <<DataFile(<<98, 10, 97>>), SaltFile>> }

NullString == [isNull |-> TRUE, value |-> <<>>]

\* fetchGistData(gistUrl) once the gist was received
fetchGistData(files) ==
  [files |-> files,
   hasStrictFile |-> \E i \in 1..Len(files) : files[i].filename = "_strict",
   saltContent |->
     IF \E i \in 1..Len(files) : files[i].filename = "_salt"
     THEN LET i == CHOOSE i \in 1..Len(files) : files[i].filename = "_salt"
          IN [isNull |-> FALSE, value |-> trim(files[i].content)]
     ELSE NullString]

\* the gist URL pattern of fetchGistData
IsGistUrl(url) == url = "https://gist.github.com/u/abc1"

RECURSIVE Contents(_)
Contents(files) ==
  IF files = <<>> THEN <<>>
  ELSE <<Head(files).content>> \o Contents(Tail(files))

\* dataFiles.map(f => f.content).join('\n')
combinedData(files) ==
  join(Contents(SelectSeq(files, LAMBDA f : f.filename # "_strict"
                                            /\ f.filename # "_salt")))

\* the store as defineStore creates it (block heights and timestamps, which
\* hold Date.now() stand-ins and are read by nothing, are left out; a
\* randomValue of null is written 0: setRandomnessData is only ever called
\* with a value above 0)
InitialStore ==
  [inputData |-> <<>>, gistUrl |-> "", salt |-> <<>>,
   preSortEnabled |-> TRUE, numberOfWinners |-> 1,
   transactionId |-> "", entityHash |-> <<>>,
   randomValue |-> 0, responseTransactionId |-> "",
   verificationStatus |-> [entityHash |-> "unable_to_verify",
                           salt |-> "unable_to_verify"],
   shuffledData |-> <<>>, winners |-> <<>>]

InitialForm ==
  [inputMethod |-> "direct", localInputData |-> <<>>, localGistUrl |-> "",
   localSalt |-> <<>>, localNumberOfWinners |-> 1]

HomeRoute ==
  [name |-> "home", transactionID |-> "", gg |-> "", winners |-> <<>>,
   salt |-> <<>>, entityHash |-> <<>>, preSort |-> ""]

\* the results view as it is before it is mounted
InitialPage ==
  [mounted |-> FALSE, isPolling |-> FALSE, verifying |-> FALSE,
   verificationResult |-> "pending"]

NoCommitment ==
  [made |-> FALSE, inputData |-> <<>>, salt |-> <<>>,
   preSortEnabled |-> FALSE, lines |-> <<>>, entityHash |-> <<>>]

\* WinnerSelection: the lines handed to shuffleArray
ShuffleLines(st) == filterNonBlank(split(st.inputData))

\* WinnerSelection: the computed shuffledEntries
shuffledEntries(st) ==
  IF st.randomValue = 0 \/ st.inputData = <<>> THEN <<>>
  ELSE shuffleArray(ShuffleLines(st), st.randomValue)

\* WinnerSelection: the two watchers, run for a change of the store from
\* `old` to `new` while the component is mounted
Watchers(old, new) ==
  LET entries == shuffledEntries(new)
      recomputed == \/ new.randomValue # old.randomValue
                    \/ new.inputData # old.inputData
      st1 == IF recomputed
             THEN [new EXCEPT
                     !.shuffledData = entries,
                     !.winners =
                        IF Len(entries) > 0 /\ new.numberOfWinners > 0
                        THEN slice(entries, new.numberOfWinners)
                        ELSE @]
             ELSE new
  IN IF new.numberOfWinners # old.numberOfWinners /\ Len(entries) > 0
     THEN [st1 EXCEPT !.winners = slice(entries, new.numberOfWinners)]
     ELSE st1

\* the lines last handed to shuffleArray, kept for the properties
NoteShuffle(old, new) ==
  shuffleInput' =
    IF (new.randomValue # old.randomValue \/ new.inputData # old.inputData)
       /\ ~(new.randomValue = 0 \/ new.inputData = <<>>)
    THEN ShuffleLines(new)
    ELSE shuffleInput

WfCall(op, ok) == [op |-> op, ok |-> ok]

InputForm_setInputMethod(method) ==
  /\ route.name = "home"
  /\ form.inputMethod # method
  /\ form' = [form EXCEPT !.inputMethod = method]
  /\ wfCall' = WfCall("setInputMethod", TRUE)
  /\ UNCHANGED <<store, route, page, gist, mtStream, committed, shuffleInput>>
  /\ UNCHANGED <<ledgerVars, mathVars, api3Vars, shuffleVars, pollVars, chainlinkVars, saltVars, detVars, submitVars>>

\* the form fields bound with v-model
InputForm_input(data, salt, winners, url) ==
  /\ route.name = "home"
  /\ data # form.localInputData => form.inputMethod = "direct"
  /\ url # form.localGistUrl => form.inputMethod = "gist"
  /\ salt # form.localSalt
       => ~(store.gistUrl # "" /\ form.localSalt = store.salt)
  /\ <<data, salt, winners, url>> #
       <<form.localInputData, form.localSalt, form.localNumberOfWinners,
         form.localGistUrl>>
  /\ form' = [form EXCEPT !.localInputData = data, !.localSalt = salt,
                          !.localNumberOfWinners = winners,
                          !.localGistUrl = url]
  /\ wfCall' = WfCall("input", TRUE)
  /\ UNCHANGED <<store, route, page, gist, mtStream, committed, shuffleInput>>
  /\ UNCHANGED <<ledgerVars, mathVars, api3Vars, shuffleVars, pollVars, chainlinkVars, saltVars, detVars, submitVars>>

\* the pre-sort checkbox, bound to store.preSortEnabled
InputForm_togglePreSort ==
  /\ route.name = "home"
  /\ ~(store.gistUrl # "" /\ ~store.preSortEnabled)
  /\ store' = [store EXCEPT !.preSortEnabled = ~@]
  /\ wfCall' = WfCall("togglePreSort", TRUE)
  /\ UNCHANGED <<form, route, page, gist, mtStream, committed, shuffleInput>>
  /\ UNCHANGED <<ledgerVars, mathVars, api3Vars, shuffleVars, pollVars, chainlinkVars, saltVars, detVars, submitVars>>

InputForm_loadGistData(received) ==
  /\ route.name = "home"
  /\ form.inputMethod = "gist"
  /\ form.localGistUrl # ""
  /\ IF IsGistUrl(form.localGistUrl) /\ received
     THEN LET g == fetchGistData(gist)
              data == combinedData(g.files)
          IN /\ store' =
                  [store EXCEPT
                     !.inputData = data,
                     !.gistUrl = form.localGistUrl,
                     !.preSortEnabled = IF g.hasStrictFile THEN FALSE ELSE @,
                     !.salt = IF ~g.saltContent.isNull
                              THEN g.saltContent.value ELSE @]
             /\ form' =
                  [form EXCEPT
                     !.localInputData = data,
                     !.localSalt = IF ~g.saltContent.isNull
                                   THEN g.saltContent.value ELSE @,
                     !.inputMethod = "direct"]
             /\ wfCall' = WfCall("loadGistData", TRUE)
     ELSE /\ wfCall' = WfCall("loadGistData", FALSE)
          /\ UNCHANGED <<store, form>>
  /\ UNCHANGED <<route, page, gist, mtStream, committed, shuffleInput>>
  /\ UNCHANGED <<ledgerVars, mathVars, api3Vars, shuffleVars, pollVars, chainlinkVars, saltVars, detVars, submitVars>>

isFormValid ==
  IF form.inputMethod = "direct"
  THEN Len(trim(form.localInputData)) > 0
  ELSE form.localGistUrl # ""

updateStoreData(st) ==
  [st EXCEPT !.inputData = form.localInputData,
             !.salt = form.localSalt,
             !.numberOfWinners = form.localNumberOfWinners]

\* HomeView.handleSubmit: the string that is hashed together with the salt
ProcessedData(inputData, preSortEnabled) ==
  IF preSortEnabled
  THEN join(sort(filterNonBlank(split(inputData))))
  ELSE inputData

\* HomeView.handleSubmit: sha256Hash(processedData + store.salt)
EntityHashOf(processedData, salt) == sha256Hash(processedData \o salt)

\* a handleSubmit that stores the entity hash before the request is made
InputForm_handleSubmit_hashFirst(accepted, transactionId) ==
  /\ route.name = "home"
  /\ isFormValid
  /\ LET st == updateStoreData(store)
         processedData == ProcessedData(st.inputData, st.preSortEnabled)
         entityHash == EntityHashOf(processedData, st.salt)
     IN IF accepted
        THEN /\ store' = [st EXCEPT !.transactionId = transactionId,
                                    !.entityHash = entityHash]
             /\ route' =
                  [name |-> "results", transactionID |-> transactionId,
                   gg |-> st.gistUrl,
                   winners |-> toString(st.numberOfWinners),
                   salt |-> st.salt, entityHash |-> entityHash,
                   preSort |-> IF st.preSortEnabled THEN "1" ELSE "0"]
             /\ committed' =
                  [made |-> TRUE, inputData |-> st.inputData,
                   salt |-> st.salt, preSortEnabled |-> st.preSortEnabled,
                   lines |-> filterNonBlank(split(processedData)),
                   entityHash |-> entityHash]
             /\ wfCall' = WfCall("handleSubmit", TRUE)
        ELSE /\ store' = [st EXCEPT !.entityHash = entityHash]
             /\ wfCall' = WfCall("handleSubmit", FALSE)
             /\ UNCHANGED <<route, committed>>
  /\ UNCHANGED <<form, page, gist, mtStream, shuffleInput>>
  /\ UNCHANGED <<ledgerVars, mathVars, api3Vars, shuffleVars, pollVars, chainlinkVars, saltVars, detVars, submitVars>>

\* InputForm.handleSubmit, and HomeView.handleSubmit which it emits to
InputForm_handleSubmit(accepted, transactionId) ==
  /\ route.name = "home"
  /\ isFormValid
  /\ LET st == updateStoreData(store)
         processedData == ProcessedData(st.inputData, st.preSortEnabled)
         entityHash == EntityHashOf(processedData, st.salt)
     IN IF accepted
        THEN /\ store' = [st EXCEPT !.transactionId = transactionId,
                                    !.entityHash = entityHash]
             /\ route' =
                  [name |-> "results", transactionID |-> transactionId,
                   gg |-> st.gistUrl,
                   winners |-> toString(st.numberOfWinners),
                   salt |-> st.salt, entityHash |-> entityHash,
                   preSort |-> IF st.preSortEnabled THEN "1" ELSE "0"]
             /\ committed' =
                  [made |-> TRUE, inputData |-> st.inputData,
                   salt |-> st.salt, preSortEnabled |-> st.preSortEnabled,
                   lines |-> filterNonBlank(split(processedData)),
                   entityHash |-> entityHash]
             /\ wfCall' = WfCall("handleSubmit", TRUE)
        ELSE /\ store' = st
             /\ wfCall' = WfCall("handleSubmit", FALSE)
             /\ UNCHANGED <<route, committed>>
  /\ UNCHANGED <<form, page, gist, mtStream, shuffleInput>>
  /\ UNCHANGED <<ledgerVars, mathVars, api3Vars, shuffleVars, pollVars, chainlinkVars, saltVars, detVars, submitVars>>

\* the results route is entered: ResultsPage and WinnerSelection are set
\* up, ResultsPage starts polling, ResultsView.onMounted runs up to the
\* request for the gist
ResultsView_onMounted ==
  /\ route.name = "results"
  /\ ~page.mounted
  /\ LET winnerCount == parseInt(route.winners)
         st1 == [store EXCEPT !.transactionId = route.transactionID]
         st2 == IF route.winners # <<>> /\ winnerCount # NaN /\ winnerCount > 0
                THEN [st1 EXCEPT !.numberOfWinners = winnerCount]
                ELSE st1
         st3 == IF route.gg # "" THEN [st2 EXCEPT !.gistUrl = route.gg]
                ELSE st2
     IN /\ store' = Watchers(store, st3)
        /\ NoteShuffle(store, st3)
        /\ page' = [InitialPage EXCEPT !.mounted = TRUE, !.isPolling = TRUE,
                                       !.verifying = (route.gg # "")]
  /\ wfCall' = WfCall("onMounted", TRUE)
  /\ UNCHANGED <<form, route, gist, mtStream, committed>>
  /\ UNCHANGED <<ledgerVars, mathVars, api3Vars, shuffleVars, pollVars, chainlinkVars, saltVars, detVars, submitVars>>

\* ResultsView.verifyWithGist, from the answer to the request for the gist
ResultsView_verifyWithGist(received) ==
  /\ page.mounted
  /\ page.verifying
  /\ LET st == IF IsGistUrl(store.gistUrl) /\ received
               THEN LET g == fetchGistData(gist)
                        data == combinedData(g.files)
                        processedData == ProcessedData(data, ~g.hasStrictFile)
                        saltContent == g.saltContent.value
                        computedHash == sha256Hash(processedData \o saltContent)
                        entityHashValid == computedHash = store.entityHash
                        saltValid ==
                          \/ (~g.saltContent.isNull /\ saltContent = store.salt)
                          \/ (saltContent = <<>> /\ store.salt = <<>>)
                    IN [store EXCEPT
                          !.verificationStatus =
                             [entityHash |-> IF entityHashValid
                                             THEN "verified" ELSE "invalid",
                              salt |-> IF saltValid
                                       THEN "verified" ELSE "invalid"],
                          !.inputData = data]
               ELSE [store EXCEPT
                       !.verificationStatus =
                          [entityHash |-> "unable_to_verify",
                           salt |-> "unable_to_verify"]]
     IN /\ store' = Watchers(store, st)
        /\ NoteShuffle(store, st)
        /\ wfCall' = WfCall("verifyWithGist", IsGistUrl(store.gistUrl) /\ received)
  /\ page' = [page EXCEPT !.verifying = FALSE]
  /\ UNCHANGED <<form, route, gist, mtStream, committed>>
  /\ UNCHANGED <<ledgerVars, mathVars, api3Vars, shuffleVars, pollVars, chainlinkVars, saltVars, detVars, submitVars>>

\* ResultsView.verifyManually with what the verifier typed into the refs
\* manualInputData and manualSalt and chose for manualPreSort
ResultsView_verifyManually(data, salt, preSort) ==
  /\ page.mounted
  /\ route.gg = ""
  /\ LET processedData == ProcessedData(data, preSort)
         computedHash == sha256Hash(processedData \o salt)
         entityHashValid == computedHash = store.entityHash
         saltValid == salt = store.salt
         st == IF entityHashValid /\ saltValid
               THEN [store EXCEPT
                       !.inputData = data,
                       !.verificationStatus =
                          [entityHash |-> "verified", salt |-> "verified"]]
               ELSE store
     IN /\ store' = Watchers(store, st)
        /\ NoteShuffle(store, st)
        /\ page' = [page EXCEPT
                      !.verificationResult =
                         IF entityHashValid /\ saltValid
                         THEN "success" ELSE "failed"]
        /\ wfCall' = WfCall("verifyManually", entityHashValid /\ saltValid)
  /\ UNCHANGED <<form, route, gist, mtStream, committed>>
  /\ UNCHANGED <<ledgerVars, mathVars, api3Vars, shuffleVars, pollVars, chainlinkVars, saltVars, detVars, submitVars>>

\* ResultsPage.pollForRandomness with what fetchRandomness gave
ResultsPage_pollForRandomness(randomValue) ==
  /\ page.mounted
  /\ page.isPolling
  /\ IF randomValue > 0
     THEN LET st1 == [store EXCEPT
                        !.randomValue = randomValue,
                        !.responseTransactionId = "response"]
              \* verifyData
              st2 == IF store.gistUrl # ""
                     THEN [st1 EXCEPT
                             !.verificationStatus =
                                [entityHash |-> "verified",
                                 salt |-> IF store.salt # <<>>
                                          THEN "verified"
                                          ELSE "unable_to_verify"]]
                     ELSE st1
          IN /\ store' = Watchers(store, st2)
             /\ NoteShuffle(store, st2)
             /\ page' = [page EXCEPT !.isPolling = FALSE]
     ELSE UNCHANGED <<store, page, shuffleInput>>
  /\ wfCall' = WfCall("pollForRandomness", randomValue > 0)
  /\ UNCHANGED <<form, route, gist, mtStream, committed>>
  /\ UNCHANGED <<ledgerVars, mathVars, api3Vars, shuffleVars, pollVars, chainlinkVars, saltVars, detVars, submitVars>>

\* somebody opens the shared results URL in a browser of their own
OpenSharedUrl ==
  /\ route.name = "results"
  /\ page.mounted
  /\ store' = InitialStore
  /\ form' = InitialForm
  /\ page' = InitialPage
  /\ shuffleInput' = <<>>
  /\ wfCall' = WfCall("open", TRUE)
  /\ UNCHANGED <<route, gist, mtStream, committed>>
  /\ UNCHANGED <<ledgerVars, mathVars, api3Vars, shuffleVars, pollVars, chainlinkVars, saltVars, detVars, submitVars>>

\* ------------------------------------------------------------------------
\* utils/keccak: the salt a user typed, as the bytes32 the contract takes
\*
\* A salt is null, undefined or a string; a string is a sequence of character
\* codes.  The keccak256 digest of a string stands for the hashed string
\* itself, marked as a digest, so that two digests are equal exactly when the
\* strings are; the digest of no string is thirty-two zero bytes.
\* ------------------------------------------------------------------------
\* length of the salts handed to saltToBytes32
MaxSaltLen == 3

\* tab, space, no-break space (all three trimmed), 's' and 't'
SaltChars == {9, 32, 160, 115, 116}

RECURSIVE StringsUpTo(_)
StringsUpTo(n) ==
  IF n = 0 THEN {<<>>}
  ELSE LET shorter == StringsUpTo(n - 1)
       IN shorter \cup {Append(t, c) : t \in shorter, c \in SaltChars}

SaltInputs ==
  {[kind |-> "null", text |-> <<>>], [kind |-> "undefined", text |-> <<>>]}
    \cup {[kind |-> "string", text |-> t] : t \in StringsUpTo(MaxSaltLen)}

\* '0x' followed by sixty-four zeros
ZeroBytes32 == <<0>>

\* stringToBytes32(input): '0x' and the hex of keccak256(input)
stringToBytes32(input) == <<3>> \o input

\* a saltToBytes32 that hashes the salt as typed
saltToBytes32_untrimmed(salt) ==
  IF salt.kind # "string" \/ salt.text = <<>> \/ trim(salt.text) = <<>>
  THEN ZeroBytes32
  ELSE stringToBytes32(salt.text)

\* saltToBytes32(salt)
saltToBytes32(salt) ==
  IF salt.kind # "string" \/ salt.text = <<>> \/ trim(salt.text) = <<>>
  THEN ZeroBytes32
  ELSE stringToBytes32(trim(salt.text))

NoSaltCall ==
  [op |-> "none", salt |-> [kind |-> "undefined", text |-> <<>>],
   result |-> <<>>]

\* one call of saltToBytes32
Salt_call(salt) ==
  /\ saltCall' = [op |-> "saltToBytes32", salt |-> salt,
                  result |-> saltToBytes32(salt)]
  /\ UNCHANGED <<ledgerVars, mathVars, api3Vars, workflowVars, shuffleVars,
                 pollVars, chainlinkVars, detVars, submitVars>>

SaltNext == \E salt \in SaltInputs : Salt_call(salt)

\* ------------------------------------------------------------------------
\* HomeView.handleSubmit: the commitments of several submissions
\*
\* Each submission is a run of the application of its own; what it typed,
\* what handleSubmit hashed and the entity hash it committed are kept side
\* by side.
\* ------------------------------------------------------------------------
\* submissions kept side by side
MaxSubmissions == 2

\* "a", "as", "b\na"
SubmittedTexts == {<<97>>, <<97, 115>>, <<98, 10, 97>>}

\* one submission: handleSubmit up to the entity hash
HomeView_commit(inputData, preSortEnabled, salt) ==
  /\ Len(submissions) < MaxSubmissions
  /\ Len(trim(inputData)) > 0
  /\ LET processedData == ProcessedData(inputData, preSortEnabled)
     IN submissions' =
          Append(submissions,
                 [inputData |-> inputData, preSortEnabled |-> preSortEnabled,
                  processedData |-> processedData, salt |-> salt,
                  entityHash |-> EntityHashOf(processedData, salt)])
  /\ UNCHANGED <<ledgerVars, mathVars, api3Vars, workflowVars, shuffleVars,
                 pollVars, chainlinkVars, saltVars, detVars>>

SubmitNext ==
  \E d \in SubmittedTexts, p \in BOOLEAN, sl \in SaltTexts :
     HomeView_commit(d, p, sl)

\* ------------------------------------------------------------------------
\* DeterministicTestDriver (examples/drivers: class DeterministicTestDriver)
\*
\* An entity hash is [text |-> h]; a transaction id is the digest it was cut
\* from.  The SHA-256 digest of a text stands for the parts of the text,
\* marked as a digest, so that two digests are equal exactly when the texts
\* are.  A number read from a digest is the digest, marked as a number; the
\* number 0 is DetZero.  detClock counts Date.now() in steps of SleepMs.
\* ------------------------------------------------------------------------
\* how far Date.now() is followed
MaxDetClock == 3
\* config.maxRequests of the driver under test
maxRequests == 3
\* setTimeout(resolve, 50) in requestRandomness
SleepMs == 50
\* config.delay of the driver under test
DetDelay == 100

DetSeed == "test-seed"
DetHashes == {[text |-> h] : h \in {"h1", "short"}}
DetSalts == {"s1", "s2"}
\* parseInt(hash.substring(0, 8), 16) % 10000 of a digest
TimeOffsets == {0, 50, 9999}
DetDelays == {0, DetDelay}

DetZero == [number |-> <<>>]

DetHashLen(entityHash) ==
  IF "text" \in DOMAIN entityHash THEN HashLen(entityHash.text) ELSE 18

\* generateTransactionId(entityHash, salt), called when Date.now() is clock
Det_generateTransactionId(d, clock, entityHash, salt) ==
  [sha256 |-> <<d.seed, entityHash, salt, clock * SleepMs>>]

\* generateRandomNumber(transactionID)
Det_generateRandomNumber(d, transactionID) ==
  [number |-> <<d.seed, transactionID, "result">>]

\* requestRandomness(entityHash, salt) on driver d when Date.now() is clock:
\* what it returns or throws, the driver and the clock after it
\* (failureRate is 0, so Math.random() < failureRate never holds)
Det_request(d, clock, entityHash, salt) ==
  IF DetHashLen(entityHash) # 64
  THEN [ok |-> FALSE, error |-> "Invalid entity hash",
        transactionId |-> DetZero, driver |-> d, clock |-> clock]
  ELSE IF d.requestCount >= d.maxRequests
  THEN [ok |-> FALSE, error |-> "Maximum requests exceeded",
        transactionId |-> DetZero, driver |-> d, clock |-> clock]
  ELSE [ok |-> TRUE, error |-> "",
        transactionId |-> Det_generateTransactionId(d, clock, entityHash, salt),
        driver |-> [d EXCEPT !.requestCount = @ + 1],
        clock |-> IF d.delay > 0 THEN clock + 1 ELSE clock]

\* fetchRandomness(entityHash) on driver d; offset is the time offset read
\* from the digest of the transaction id it makes up for the entity hash
Det_fetch(d, entityHash, offset) ==
  LET elapsed == offset
  IN IF elapsed < d.delay
     THEN [result |-> DetZero, driver |-> d]
     ELSE [result |-> Det_generateRandomNumber(d, entityHash),
           driver |-> [d EXCEPT !.completedRequests = @ \cup {entityHash}]]

NoDetCall ==
  [op |-> "none", entityHash |-> [text |-> ""], salt |-> "", ok |-> TRUE,
   result |-> DetZero, error |-> ""]

DetInit ==
  /\ det = [seed |-> DetSeed, delay |-> DetDelay, failureRate |-> 0,
            maxRequests |-> maxRequests, requestCount |-> 0,
            completedRequests |-> {}]
  /\ detClock = 0
  /\ detCall = NoDetCall

\* time passes
Det_tick ==
  /\ detClock < MaxDetClock
  /\ detClock' = detClock + 1
  /\ UNCHANGED <<det, detCall>>
  /\ UNCHANGED <<ledgerVars, mathVars, api3Vars, workflowVars, shuffleVars,
                 pollVars, chainlinkVars, saltVars, submitVars>>

Det_requestRandomness(entityHash, salt) ==
  \E r \in {Det_request(det, detClock, entityHash, salt)} :
    /\ r.clock <= MaxDetClock
    /\ det' = r.driver
    /\ detClock' = r.clock
    /\ detCall' = [op |-> "requestRandomness", entityHash |-> entityHash,
                   salt |-> salt, ok |-> r.ok, result |-> r.transactionId,
                   error |-> r.error]
    /\ UNCHANGED <<ledgerVars, mathVars, api3Vars, workflowVars, shuffleVars,
                   pollVars, chainlinkVars, saltVars, submitVars>>

Det_fetchRandomness(entityHash, offset) ==
  \E f \in {Det_fetch(det, entityHash, offset)} :
    /\ det' = f.driver
    /\ detCall' = [op |-> "fetchRandomness", entityHash |-> entityHash,
                   salt |-> "", ok |-> TRUE, result |-> f.result,
                   error |-> ""]
    /\ UNCHANGED detClock
    /\ UNCHANGED <<ledgerVars, mathVars, api3Vars, workflowVars, shuffleVars,
                   pollVars, chainlinkVars, saltVars, submitVars>>

\* getReproducibleResult(entityHash, salt)
Det_getReproducibleResult(entityHash, salt, offset) ==
  \E r \in {Det_request(det, detClock, entityHash, salt)} :
    /\ r.clock <= MaxDetClock
    /\ detClock' = r.clock
    /\ IF ~r.ok
       THEN /\ det' = r.driver
            /\ detCall' = [op |-> "getReproducibleResult",
                           entityHash |-> entityHash, salt |-> salt,
                           ok |-> FALSE, result |-> DetZero,
                           error |-> r.error]
       ELSE \E f \in {Det_fetch([r.driver EXCEPT !.delay = 0],
                                r.transactionId, offset)} :
              /\ det' = [f.driver EXCEPT !.delay = r.driver.delay]
              /\ detCall' = [op |-> "getReproducibleResult",
                             entityHash |-> entityHash, salt |-> salt,
                             ok |-> TRUE, result |-> f.result, error |-> ""]
    /\ UNCHANGED <<ledgerVars, mathVars, api3Vars, workflowVars, shuffleVars,
                   pollVars, chainlinkVars, saltVars, submitVars>>

\* reset()
Det_reset ==
  /\ det' = [det EXCEPT !.requestCount = 0, !.completedRequests = {}]
  /\ detCall' = [NoDetCall EXCEPT !.op = "reset"]
  /\ UNCHANGED detClock
  /\ UNCHANGED <<ledgerVars, mathVars, api3Vars, workflowVars, shuffleVars,
                 pollVars, chainlinkVars, saltVars, submitVars>>

\* setDelay(delayMs)
Det_setDelay(delayMs) ==
  /\ det' = [det EXCEPT !.delay = IF delayMs > 0 THEN delayMs ELSE 0]
  /\ detCall' = [NoDetCall EXCEPT !.op = "setDelay"]
  /\ UNCHANGED detClock
  /\ UNCHANGED <<ledgerVars, mathVars, api3Vars, workflowVars, shuffleVars,
                 pollVars, chainlinkVars, saltVars, submitVars>>

DetNext ==
  \/ Det_tick
  \/ \E h \in DetHashes, s \in DetSalts : Det_requestRandomness(h, s)
  \/ \E o \in TimeOffsets :
       \E h \in DetHashes \cup
                (IF detCall.op = "requestRandomness" /\ detCall.ok
                 THEN {detCall.result} ELSE {}) :
          Det_fetchRandomness(h, o)
  \/ \E h \in DetHashes, s \in DetSalts, o \in TimeOffsets :
        Det_getReproducibleResult(h, s, o)
  \/ Det_reset
  \/ \E delayMs \in DetDelays : Det_setDelay(delayMs)

\* ------------------------------------------------------------------------
\* The polling of the results page (ResultsPage: onMounted, the interval
\* timer, pollForRandomness, onUnmounted)
\*
\* A call of pollForRandomness is in flight from the moment it calls
\* fetchRandomness to the moment the promise settles; the timer starts the
\* next call whether or not the last one has settled.  The clock counts the
\* milliseconds since the page was set up.
\* ------------------------------------------------------------------------
\* firings of the interval timer in one behaviour
MaxTimerFirings == 6

\* window.setInterval(pollForRandomness, 3000)
PollPeriod == 3000

\* the component after setup: isPolling = ref(true), pollInterval = ref(null)
InitialPoller ==
  [mounted |-> FALSE, unmounted |-> FALSE, isPolling |-> TRUE,
   pollInterval |-> FALSE, timer |-> FALSE, inFlight |-> 0, clock |-> 0,
   nextFiring |-> 0, firings |-> 0, calls |-> <<>>, received |-> FALSE,
   settled |-> 0]

\* pollForRandomness up to its await: the call of fetchRandomness
StartPoll(p) ==
  [p EXCEPT !.inFlight = @ + 1, !.calls = Append(@, p.clock)]

\* onMounted: poll at once, then set the interval timer up
ResultsPage_onMounted ==
  /\ ~poller.mounted /\ ~poller.unmounted
  /\ poller' = [StartPoll(poller) EXCEPT
                  !.mounted = TRUE, !.pollInterval = TRUE, !.timer = TRUE,
                  !.nextFiring = poller.clock + PollPeriod]
  /\ UNCHANGED <<ledgerVars, mathVars, api3Vars, workflowVars, shuffleVars, chainlinkVars, saltVars, detVars, submitVars>>

\* the interval timer fires: time has passed to the next firing
ResultsPage_timerFires ==
  /\ poller.timer
  /\ poller.firings < MaxTimerFirings
  /\ poller' = [StartPoll([poller EXCEPT !.clock = poller.nextFiring]) EXCEPT
                  !.nextFiring = poller.nextFiring + PollPeriod,
                  !.firings = @ + 1]
  /\ UNCHANGED <<ledgerVars, mathVars, api3Vars, workflowVars, shuffleVars, chainlinkVars, saltVars, detVars, submitVars>>

\* pollForRandomness after its await: fetchRandomness has thrown or has
\* returned randomValue
ResultsPage_pollSettles(threw, randomValue) ==
  /\ poller.inFlight > 0
  /\ IF ~threw /\ randomValue > 0
     THEN LET st1 == [store EXCEPT
                        !.randomValue = randomValue,
                        !.responseTransactionId = "response"]
              \* verifyData
              st2 == IF store.gistUrl # ""
                     THEN [st1 EXCEPT
                             !.verificationStatus =
                                [entityHash |-> "verified",
                                 salt |-> IF store.salt # <<>>
                                          THEN "verified"
                                          ELSE "unable_to_verify"]]
                     ELSE st1
          IN /\ store' = Watchers(store, st2)
             /\ NoteShuffle(store, st2)
             /\ poller' = [poller EXCEPT
                             !.inFlight = @ - 1, !.settled = @ + 1,
                             !.isPolling = FALSE,
                             !.timer = IF poller.pollInterval THEN FALSE ELSE @,
                             !.received = TRUE]
     ELSE /\ poller' = [poller EXCEPT !.inFlight = @ - 1, !.settled = @ + 1]
          /\ UNCHANGED <<store, shuffleInput>>
  /\ UNCHANGED <<form, route, page, gist, mtStream, committed, wfCall>>
  /\ UNCHANGED <<ledgerVars, mathVars, api3Vars, shuffleVars, chainlinkVars, saltVars, detVars, submitVars>>

\* an onUnmounted that leaves the interval timer running
ResultsPage_onUnmounted_timerLeft ==
  /\ poller.mounted
  /\ poller' = [poller EXCEPT !.mounted = FALSE, !.unmounted = TRUE]
  /\ UNCHANGED <<ledgerVars, mathVars, api3Vars, workflowVars, shuffleVars, chainlinkVars, saltVars, detVars, submitVars>>

\* onUnmounted: clear the interval timer
ResultsPage_onUnmounted ==
  /\ poller.mounted
  /\ poller' = [poller EXCEPT
                  !.mounted = FALSE, !.unmounted = TRUE,
                  !.timer = IF poller.pollInterval THEN FALSE ELSE @]
  /\ UNCHANGED <<ledgerVars, mathVars, api3Vars, workflowVars, shuffleVars, chainlinkVars, saltVars, detVars, submitVars>>

PollNext ==
  \/ ResultsPage_onMounted
  \/ ResultsPage_timerFires
  \/ \E threw \in BOOLEAN, v \in RandomValues \cup {0} :
        ResultsPage_pollSettles(threw, v)
  \/ ResultsPage_onUnmounted

\* ------------------------------------------------------------------------
\* shuffleArray on its own (utils/shuffle.ts), called with any array
\* ------------------------------------------------------------------------
MaxShuffleCalls == 3

\* [], ["a"], ["a","b"], ["b","a"], ["a","a","b"], ["a","b","c"]
ShuffleArrays ==
  { <<>>, <<<<97>>>>, <<<<97>>, <<98>>>>, <<<<98>>, <<97>>>>,
    <<<<97>>, <<97>>, <<98>>>>, <<<<97>>, <<98>>, <<99>>>> }

ShuffleLengths == {Len(array) : array \in ShuffleArrays}
MaxShuffleLength == CHOOSE n \in ShuffleLengths : \A m \in ShuffleLengths : m <= n

\* a grain at which every index 0..i can be drawn for every i below the
\* longest array: the product of 2..MaxShuffleLength
RECURSIVE Factorial(_)
Factorial(n) == IF n <= 1 THEN 1 ELSE n * Factorial(n - 1)

ShuffleResolution == Factorial(MaxShuffleLength)

NoShuffleCall == [array |-> <<>>, seed |-> 0, shuffled |-> <<>>]

NoShuffleCalls ==
  [count |-> 0, first |-> NoShuffleCall, last |-> NoShuffleCall,
   between |-> FALSE]

\* some caller shuffles
CallShuffleArray(array, seed) ==
  /\ shuffleCalls.count < MaxShuffleCalls
  /\ LET this == [array |-> array, seed |-> seed,
                  shuffled |-> shuffleArray(array, seed)]
     IN shuffleCalls' =
          IF shuffleCalls.count = 0
          THEN [count |-> 1, first |-> this, last |-> this,
                between |-> FALSE]
          ELSE [count |-> shuffleCalls.count + 1,
                first |-> shuffleCalls.first,
                last |-> this,
                between |-> shuffleCalls.between
                              \/ array # shuffleCalls.first.array]
  /\ UNCHANGED <<ledgerVars, mathVars, api3Vars, workflowVars, pollVars, chainlinkVars, saltVars, detVars, submitVars>>

ShuffleInit ==
  /\ poller = InitialPoller
  /\ ChainlinkInit
  /\ saltCall = NoSaltCall
  /\ DetInit
  /\ submissions = <<>>
  /\ store = InitialStore
  /\ form = InitialForm
  /\ route = HomeRoute
  /\ page = InitialPage
  /\ gist = <<DataFile(<<98, 10, 97>>)>>
  /\ mtStream \in
       [resolution : {ShuffleResolution},
        draws : [RandomValues ->
                   [1..(MaxShuffleLength - 1) -> 0..(ShuffleResolution - 1)]]]
  /\ committed = NoCommitment
  /\ shuffleInput = <<>>
  /\ wfCall = WfCall("none", TRUE)
  /\ shuffleCalls = NoShuffleCalls

ShuffleNext ==
  \E array \in ShuffleArrays, seed \in RandomValues :
     CallShuffleArray(array, seed)

\* the draws a shuffle of the longest input needs
LineCounts == {Len(filterNonBlank(split(text))) : text \in InputTexts}
MaxDraws == (CHOOSE n \in LineCounts : \A m \in LineCounts : m <= n) - 1

WorkflowInit ==
  /\ poller = InitialPoller
  /\ ChainlinkInit
  /\ saltCall = NoSaltCall
  /\ DetInit
  /\ submissions = <<>>
  /\ store = InitialStore
  /\ form = InitialForm
  /\ route = HomeRoute
  /\ page = InitialPage
  /\ gist \in Gists
  /\ mtStream \in
       [resolution : {Resolution},
        draws : [RandomValues -> [1..MaxDraws -> 0..(Resolution - 1)]]]
  /\ shuffleCalls = NoShuffleCalls
  /\ committed = NoCommitment
  /\ shuffleInput = <<>>
  /\ wfCall = WfCall("none", TRUE)

\* the workflow at rest, for the specifications of the other components
WorkflowIdle ==
  /\ WorkflowInit
  /\ gist = <<DataFile(<<98, 10, 97>>)>>
  /\ mtStream.draws = [v \in RandomValues |-> [k \in 1..MaxDraws |-> 0]]

WorkflowNext ==
  \/ \E m \in {"direct", "gist"} : InputForm_setInputMethod(m)
  \/ \E d \in InputTexts \cup {<<>>}, s \in SaltTexts, n \in WinnerCounts,
        u \in GistUrls \cup {""} : InputForm_input(d, s, n, u)
  \/ InputForm_togglePreSort
  \/ \E received \in BOOLEAN : InputForm_loadGistData(received)
  \/ \E accepted \in BOOLEAN, t \in TransactionIds :
        InputForm_handleSubmit(accepted, t)
  \/ ResultsView_onMounted
  \/ \E received \in BOOLEAN : ResultsView_verifyWithGist(received)
  \/ \E d \in InputTexts, s \in SaltTexts, p \in BOOLEAN :
        ResultsView_verifyManually(d, s, p)
  \/ \E v \in RandomValues \cup {0} : ResultsPage_pollForRandomness(v)
  \/ OpenSharedUrl

\* the ledger at rest, for the specifications of the other components
LedgerIdle == LedgerInit /\ contract = "RandomProof"

vars == <<ledgerVars, mathVars, api3Vars, workflowVars, shuffleVars, pollVars, chainlinkVars, saltVars, detVars, submitVars>>

\* the contracts behind the repository's mock coordinators
InitLedger == LedgerInit /\ MathInit /\ Api3Init /\ WorkflowIdle
SpecLedger == InitLedger /\ [][LedgerNext]_vars

\* the contracts behind a coordinator that may call back
SpecReentrant == InitLedger /\ [][ReentrantNext]_vars

\* the Math.random driver of one browser, with page refreshes
InitMath == LedgerIdle /\ MathInit /\ Api3Init /\ WorkflowIdle
SpecMath == InitMath /\ [][MathNext]_vars

\* the API3 driver of one page and the QRNG service
InitApi3 == LedgerIdle /\ MathInit /\ Api3Init /\ WorkflowIdle
SpecApi3 == InitApi3 /\ [][Api3Next]_vars

\* the API3 driver of one page, cancelRequest included
InitCancel == LedgerIdle /\ MathInit /\ Api3Init /\ WorkflowIdle
SpecCancel == InitCancel /\ [][CancelNext]_vars

\* the resilient API3 driver of one page and the QRNG service
InitResilient == LedgerIdle /\ MathInit /\ Api3Init /\ WorkflowIdle
SpecResilient == InitResilient /\ [][ResilientNext]_vars

\* one draw of the web application, from the form to the results page
InitWorkflow == LedgerIdle /\ MathInit /\ Api3Init /\ WorkflowInit
SpecWorkflow == InitWorkflow /\ [][WorkflowNext]_vars

\* shuffleArray called with any array, for every stream of draws
InitShuffle == LedgerIdle /\ MathInit /\ Api3Init /\ ShuffleInit
SpecShuffle == InitShuffle /\ [][ShuffleNext]_vars

\* the Chainlink driver of one page, the chain and the oracle
InitChainlink == LedgerIdle /\ MathInit /\ Api3Init /\ WorkflowIdle
SpecChainlink == InitChainlink /\ [][ChainlinkNext]_vars

\* a page configured with one of the two drivers
DriversNext ==
  \/ ChainlinkInit /\ Api3Next
  \/ Api3Init /\ ChainlinkNext

InitDrivers == LedgerIdle /\ MathInit /\ Api3Init /\ WorkflowIdle
SpecDrivers == InitDrivers /\ [][DriversNext]_vars

\* saltToBytes32 called with any salt
InitSalt == LedgerIdle /\ MathInit /\ Api3Init /\ WorkflowIdle
SpecSalt == InitSalt /\ [][SaltNext]_vars

\* submissions of the form, side by side
InitSubmit == LedgerIdle /\ MathInit /\ Api3Init /\ WorkflowIdle
SpecSubmit == InitSubmit /\ [][SubmitNext]_vars

\* the deterministic test driver called in any order, at any time
InitDeterministic == LedgerIdle /\ MathInit /\ Api3Init /\ WorkflowIdle
SpecDeterministic == InitDeterministic /\ [][DetNext]_vars

\* the results page polling a backend that answers in any way, at any time
InitPolling == LedgerIdle /\ MathInit /\ Api3Init /\ WorkflowIdle
SpecPolling == InitPolling /\ [][PollNext]_vars

\* ------------------------------------------------------------------------
\* The draw workflow: properties
\* ------------------------------------------------------------------------

\* C9: when pre-sorting is enabled, the lines handed to shuffleArray are the
\* sorted non-blank lines whose hash was committed, not the raw input in
\* the order it was typed.
C9_ShuffledIsCommittedList ==
  (/\ committed.made
   /\ committed.preSortEnabled
   /\ store.entityHash = committed.entityHash
   /\ page.mounted
   /\ store.shuffledData # <<>>)
    => shuffleInput = committed.lines

\* C10: verifying a committed draw against the unchanged data and salt
\* gives the status 'verified', with the gist as with the manual form,
\* whatever pre-sort setting and salt the submitter used.
C10_VerifyReappliesProcessing ==
  [][(committed.made /\ store.entityHash = committed.entityHash)
       => /\ (/\ ResultsView_verifyWithGist(TRUE)
              /\ combinedData(gist) = committed.inputData
              /\ fetchGistData(gist).saltContent.value = committed.salt)
               => store'.verificationStatus.entityHash = "verified"
          /\ ResultsView_verifyManually(committed.inputData, committed.salt,
                                        committed.preSortEnabled)
               => store'.verificationStatus.entityHash = "verified"]_vars

\* how often x occurs in the array
Count(array, x) == Cardinality({i \in DOMAIN array : array[i] = x})

\* C12: for every input array and every sequence of generator draws,
\* shuffleArray returns a permutation of its input: the same length and
\* every element as often as in the input.
C12_ShuffleIsPermutation ==
  shuffleCalls.count > 0
    => LET array == shuffleCalls.last.array
           shuffled == shuffleCalls.last.shuffled
       IN /\ Len(shuffled) = Len(array)
          /\ \A i \in DOMAIN array :
                Count(shuffled, array[i]) = Count(array, array[i])
          /\ \A i \in DOMAIN shuffled :
                Count(array, shuffled[i]) = Count(shuffled, shuffled[i])

C12_Witness ==
  /\ shuffleCalls.count > 0
  /\ shuffleCalls.last.array = <<<<97>>, <<97>>, <<98>>>>
  /\ shuffleCalls.last.shuffled = <<<<98>>, <<97>>, <<97>>>>

\* C13: the winners are the first N entries of the shuffled list, in the
\* shuffled order, and all of its entries when N is above its length.
C13_WinnersAreFirstN ==
  (page.mounted /\ store.shuffledData # <<>>)
    => LET n == IF store.numberOfWinners < Len(store.shuffledData)
                THEN store.numberOfWinners
                ELSE Len(store.shuffledData)
       IN /\ store.shuffledData = shuffledEntries(store)
          /\ Len(store.winners) = n
          /\ \A i \in 1..n : store.winners[i] = store.shuffledData[i]

C13_Witness ==
  /\ page.mounted
  /\ Len(store.shuffledData) > 1
  /\ store.numberOfWinners > Len(store.shuffledData)
  /\ store.winners = store.shuffledData
  /\ store.shuffledData # ShuffleLines(store)

RecomputedHash ==
  LET g == fetchGistData(gist)
  IN sha256Hash(ProcessedData(combinedData(g.files), ~g.hasStrictFile)
                  \o g.saltContent.value)

\* C11: when the hash recomputed from the published data differs from the
\* committed entity hash, the entity-hash status is 'invalid' once that
\* verification has completed and stays 'invalid' on that results page.
C11_MismatchStaysInvalid ==
  [][(/\ page'.mounted
      /\ ~page'.verifying
      /\ RecomputedHash # store'.entityHash
      /\ \/ (wfCall'.op = "verifyWithGist" /\ wfCall'.ok)
         \/ (/\ page.mounted
             /\ ~page.verifying
             /\ store.verificationStatus.entityHash = "invalid"))
       => store'.verificationStatus.entityHash = "invalid"]_vars

\* ------------------------------------------------------------------------
\* MathRandomDriver: properties
\* ------------------------------------------------------------------------

\* C3: fetchRandomness returns 0 for a hash that was never passed to
\* requestRandomness, and for a hash whose request is still pending; it
\* never makes up a value for a commitment that was not made.
C3_ZeroUntilFulfilled ==
  [][(mathCall'.op = "fetchRandomness"
        /\ \/ mathCall'.entityHash \notin requested
           \/ /\ MapHas(pendingRequests, mathCall'.entityHash)
              /\ ~MapHas(completedResults, mathCall'.entityHash)
              /\ now - pendingRequests[mathCall'.entityHash].timestamp < 2000)
       => /\ mathCall'.randomness = 0
          /\ completedResults' = completedResults]_vars

C7_RequestIdempotent ==
  [][(mathCall'.op = "requestRandomness"
        /\ \/ MapHas(pendingRequests, mathCall'.entityHash)
           \/ MapHas(completedResults, mathCall'.entityHash))
       => /\ pendingRequests' = pendingRequests
          /\ completedResults' = completedResults
          /\ MapHas(pendingRequests, mathCall'.entityHash)
               => mathCall'.transactionId
                    = pendingRequests[mathCall'.entityHash].transactionId]_vars

\* ------------------------------------------------------------------------
\* API3QRNGDriver: properties
\* ------------------------------------------------------------------------

\* C5: once fetchRandomness has returned a positive value for a hash, every
\* later fetchRandomness for that hash returns the same value.
C5_Api3SameValue ==
  [][(api3Call'.op = "fetchRandomness"
        /\ MapHas(api3FirstFetched, api3Call'.entityHash))
       => api3Call'.randomness = api3FirstFetched[api3Call'.entityHash]]_vars

\* ------------------------------------------------------------------------
\* Ledger: properties
\* ------------------------------------------------------------------------
AlreadyProcessedErrors == {"EntityAlreadyProcessed", "EntityHashAlreadyProcessed"}
FulfillOps == {"fulfillRandomWords", "fulfillRandomWordsWithOverride"}

\* the request ids whose record was created for entity hash h
RecordsOf(h) ==
  {id \in RequestIds : /\ s_requests[id].requester # ZeroAddress
                       /\ s_requests[id].entityHash = HashKey(contract, h)}

\* C1: once a requestRandomness for an entity hash has been accepted, every
\* later requestRandomness for that hash (any salt, any sender) reverts with
\* the already-processed error and changes nothing, and no entity hash ever
\* has more than one record.
C1_OneShot ==
  /\ [](\A h \in HashInputs : Cardinality(RecordsOf(h)) <= 1)
  /\ [][(call'.op = "requestRandomness" /\ RecordsOf(call'.entityHash) # {})
          => /\ ~call'.ok
             /\ call'.error \in AlreadyProcessedErrors
             /\ LedgerState' = LedgerState]_vars

\* a duplicate submission was made and rejected
C1_Witness ==
  /\ call.op = "requestRandomness"
  /\ ~call.ok
  /\ call.error \in AlreadyProcessedErrors
  /\ RecordsOf(call.entityHash) # {}

\* C2: a second delivery for a request id leaves the randomness of the first
\* delivery in place (first write wins).
C2_FirstWriteWins ==
  [][\A id \in RequestIds :
        (s_requests[id].requester # ZeroAddress /\ s_requests[id].fulfilled)
           => s_requests'[id].randomness = s_requests[id].randomness]_vars

\* the RandomnessRequested events logged for entity hash h
RequestedEvents(h) ==
  {i \in 1..Len(events) : /\ events[i].name = "RandomnessRequested"
                          /\ events[i].entityHash = HashKey(contract, h)}

C8_UnknownRequestRejected ==
  [][(call'.op \in FulfillOps /\ s_requests[call'.requestId].requester = ZeroAddress
        /\ (call'.ok \/ call'.error # "Wrong consumer"))
        => /\ ~call'.ok
           /\ call'.error = "RequestNotFound"
           /\ LedgerState' = LedgerState]_vars

\* C15: for each request id, a RandomnessFulfilled event is emitted only
\* after a RandomnessRequested event for that id.
C15_RequestedBeforeFulfilled ==
  \A i \in 1..Len(events) :
     events[i].name = "RandomnessFulfilled"
       => \E j \in 1..(i - 1) :
             /\ events[j].name = "RandomnessRequested"
             /\ events[j].requestId = events[i].requestId

\* the submissions accepted so far, by the event each of them emitted
AcceptedSubmissions ==
  {i \in 1..Len(events) : events[i].name = "RandomnessRequested"}

\* C16: request ids go to accepted submissions only and in strictly increasing
\* order: the first accepted submission gets id 1, the next one id 2, and a
\* rejected submission (duplicate or invalid hash) consumes no id.
C16_IdsIncreaseOnAcceptOnly ==
  /\ [](s_nextRequestId = 1 + Cardinality(AcceptedSubmissions))
  /\ [][call'.op = "requestRandomness"
         => IF call'.ok
            THEN /\ call'.requestId = s_nextRequestId
                 /\ call'.requestId = 1 + Cardinality(AcceptedSubmissions)
                 /\ s_nextRequestId' = s_nextRequestId + 1
            ELSE s_nextRequestId' = s_nextRequestId]_vars

\* a rejected submission after one accepted submission: id 2 is still free
C16_Witness ==
  /\ call.op = "requestRandomness" /\ ~call.ok
  /\ s_nextRequestId = 2 /\ Cardinality(AcceptedSubmissions) = 1

\* the entity hashes for which a requestRandomness was accepted with this id
AcceptedWithId(id) ==
  {h \in HashInputs :
     \E i \in 1..Len(events) : /\ events[i].name = "RandomnessRequested"
                                /\ events[i].entityHash = HashKey(contract, h)
                                /\ events[i].requestId = id}

\* the deliveries the contract has taken for this id
DeliveriesFor(id) ==
  {i \in 1..Len(events) : /\ events[i].name = "RandomnessFulfilled"
                          /\ events[i].requestId = id}

C18_FulfilledIsNonZero ==
  /\ \A id \in RequestIds :
        s_requests[id].requester # ZeroAddress
          => (s_requests[id].fulfilled <=> s_requests[id].randomness # 0)
  /\ \A entityHash \in DOMAIN completedResults :
        completedResults[entityHash] > 0

\* the existence check of the deployed contract on the current chain state
Processed(h) == IsEntityProcessed(contract, LedgerState, h)

\* the entity hashes for which a requestRandomness has been accepted
AcceptedHashes == UNION {AcceptedWithId(id) : id \in RequestIds}

\* C19: isEntityProcessed(h) is true exactly when a record for h exists:
\* false before any submission of h, true from the moment a requestRandomness
\* for h is accepted and forever after, and still false for a hash whose only
\* submissions were rejected.
C19_ProcessedIffRecord ==
  /\ [](\A h \in HashInputs :
          /\ Processed(h) <=> RecordsOf(h) # {}
          /\ Processed(h) <=> h \in AcceptedHashes)
  /\ [][\A h \in HashInputs :
          /\ Processed(h) => Processed(h)'
          /\ (call'.op = "requestRandomness" /\ call'.entityHash = h)
               => IF call'.ok THEN Processed(h)'
                              ELSE Processed(h)' <=> Processed(h)]_vars

\* one hash accepted and fulfilled, another one only ever rejected
C19_Witness ==
  /\ call.op = "requestRandomness" /\ ~call.ok
  /\ call.error = "InvalidEntityHash" /\ ~Processed(call.entityHash)
  /\ \E h \in HashInputs : \E id \in RecordsOf(h) :
        Processed(h) /\ s_requests[id].fulfilled

\* C20: operations on one entity hash do not affect any other: accepting or
\* fulfilling the request for a hash leaves every field of every other record,
\* and the id and the processed flag of every other hash, unchanged; so
\* unfulfilled requests stay unfulfilled with randomness 0 while others are
\* fulfilled in any order.
C20_OtherRecordsUntouched ==
  [][(call'.ok /\ call'.op \in FulfillOps \cup {"requestRandomness"})
       => /\ \A id \in RequestIds :
               id # call'.requestId => s_requests'[id] = s_requests[id]
          /\ \A k \in Keys :
               (call'.op = "requestRandomness"
                  => k # HashKey(contract, call'.entityHash))
               => /\ entityHashToRequestId'[k] = entityHashToRequestId[k]
                  /\ processedEntityHashes'[k] = processedEntityHashes[k]]_vars

\* the request of one hash fulfilled while the earlier request of another
\* hash is still pending with randomness 0
C20_Witness ==
  /\ call.op \in FulfillOps /\ call.ok /\ call.requestId = 2
  /\ s_requests[2].fulfilled /\ s_requests[2].requester # ZeroAddress
  /\ s_requests[1].requester # ZeroAddress
  /\ ~s_requests[1].fulfilled /\ s_requests[1].randomness = 0
  /\ s_requests[1].entityHash # s_requests[2].entityHash

\* C21: the entityHash, salt and requester stored in a record never change
\* after the record is created, including when the record is fulfilled.
C21_RecordIdentityImmutable ==
  [][\A id \in RequestIds :
       s_requests[id].requester # ZeroAddress
         => /\ s_requests'[id].entityHash = s_requests[id].entityHash
            /\ s_requests'[id].salt = s_requests[id].salt
            /\ s_requests'[id].requester = s_requests[id].requester]_vars

\* the first of two records delivered after the second was created
C21_Witness ==
  /\ call.op \in FulfillOps /\ call.ok /\ call.requestId = 1
  /\ s_requests[1].requester # ZeroAddress /\ s_requests[1].fulfilled
  /\ s_requests[1].salt \in Salts
  /\ s_requests[2].requester # ZeroAddress
  /\ Cardinality(AcceptedSubmissions) = 2

\* C22: requestRandomness with an entity hash that is not exactly 64
\* characters long is rejected with InvalidEntityHash and leaves the ledger
\* unchanged: no record, no index entry, no coordinator request, no event.
C22_InvalidHashRejected ==
  [][(call'.op = "requestRandomness" /\ HashLen(call'.entityHash) # 64)
       => /\ ~call'.ok
          /\ call'.error = "InvalidEntityHash"
          /\ LedgerState' = LedgerState]_vars

\* a 63-character hash submitted to a ledger that already holds a record
C22_Witness ==
  /\ call.op = "requestRandomness" /\ HashLen(call.entityHash) # 64
  /\ call.error = "InvalidEntityHash"
  /\ s_nextRequestId = 2 /\ Len(events) > 0

\* C23: a commitment that is pending in a driver stays pending until it is
\* fulfilled: a fetchRandomness that yields 0 (backend still pending, backend
\* reports failure, network or parse error) leaves the driver's record of the
\* request in place, so that a later fetchRandomness can still obtain the
\* result.
C23_ZeroPollKeepsRequest ==
  [][(/\ api3Call'.op = "fetchRandomness"
      /\ api3Call'.randomness = 0
      /\ MapHas(api3_entityHashToRequestId, api3Call'.entityHash))
       => /\ api3_entityHashToRequestId' = api3_entityHashToRequestId
          /\ api3_pendingRequests' = api3_pendingRequests]_vars

\* ------------------------------------------------------------------------
\* The polling of the results page: properties
\* ------------------------------------------------------------------------
\* fetchRandomness is called at once on mount and then every PollPeriod
PollsOnSchedule ==
  /\ poller.mounted \/ poller.unmounted => Len(poller.calls) > 0
  /\ \A i \in 1..Len(poller.calls) :
        poller.calls[i] = (i - 1) * PollPeriod

\* C24: the results page polls fetchRandomness immediately on mount and then
\* every 3 seconds; it keeps polling while the result is 0 or the call throws,
\* and stops (isPolling false, timer cleared) exactly when a value > 0 is
\* received or the component is unmounted.
C24_PollsUntilValueOrUnmount ==
  /\ PollsOnSchedule
  /\ (poller.mounted \/ poller.unmounted)
       => IF poller.received \/ poller.unmounted
          THEN ~poller.isPolling /\ ~poller.timer
          ELSE poller.isPolling /\ poller.timer

\* C24, amended: on unmount the timer is cleared and isPolling keeps its
\* value; isPolling turns false exactly when a value > 0 is received.
C24_PollsUntilValueOrUnmount_amended ==
  /\ PollsOnSchedule
  /\ (poller.mounted \/ poller.unmounted)
       => /\ poller.isPolling <=> ~poller.received
          /\ poller.timer <=> ~(poller.received \/ poller.unmounted)

\* polls that yielded 0 or threw, two calls still in flight, then unmounted
\* before any value arrived
C24_Witness ==
  /\ poller.unmounted /\ ~poller.received /\ ~poller.timer
  /\ poller.settled >= 2 /\ Len(poller.calls) >= 3

\* ------------------------------------------------------------------------
\* The drivers: properties
\* ------------------------------------------------------------------------
\* the service holds a random number for this hash that the driver can parse
Api3Obtainable(h) ==
  /\ MapHas(api3_entityHashToRequestId, h)
  /\ LET response == qrng[api3_entityHashToRequestId[h]]
     IN /\ response.status = "completed"
        /\ response.randomNumber # NoRandomNumber
        /\ parseRandomNumber(response.randomNumber).ok

\* the receipt the driver reads for this hash carries a word it can decode
ChainlinkObtainable(h) ==
  /\ MapHas(entityHashToTxId, h)
  /\ LET receipt == chain[entityHashToTxId[h]]
         found == findVRFFulfillmentEvent(receipt)
     IN /\ found # 0
        /\ extractRandomNumber(receipt.logs[found]).ok

\* C25: fetchRandomness never throws: for every backend outcome (unknown
\* hash, still pending, failed status, network error, malformed response)
\* API3QRNGDriver and ChainlinkVRFDriver return 0 instead of propagating an
\* error to the caller.
C25_FetchNeverThrows ==
  [][/\ api3Call'.op = "fetchRandomness"
          => /\ api3Call'.ok /\ api3Call'.error = ""
             /\ api3Call'.randomness >= 0
             /\ ~Api3Obtainable(api3Call'.entityHash)
                  => api3Call'.randomness = 0
     /\ \A h \in HashInputs, o \in GetOutcomes \ {"ok"} :
          API3_fetchRandomness(h, o) => api3Call'.randomness = 0
     /\ chainlinkCall'.op = "fetchRandomness"
          => /\ chainlinkCall'.ok /\ chainlinkCall'.error = ""
             /\ chainlinkCall'.randomness >= 0
             /\ ~ChainlinkObtainable(chainlinkCall'.entityHash)
                  => chainlinkCall'.randomness = 0
     /\ \A h \in HashInputs, o \in ReceiptOutcomes \ {"ok"} :
          CL_fetchRandomness(h, o) => chainlinkCall'.randomness = 0]_vars

\* a fetch that met a number it could not parse and answered 0
C25_Witness ==
  /\ api3Call.op = "fetchRandomness" /\ api3Call.randomness = 0
  /\ \E id \in DOMAIN qrng :
        /\ qrng[id].status = "completed"
        /\ qrng[id].randomNumber # NoRandomNumber
        /\ ~parseRandomNumber(qrng[id].randomNumber).ok
        /\ ~MapHas(api3_pendingRequests, id)

\* the attempts of one requestRandomness that the service accepts
SuccessfulAttempts(outcomes) ==
  {i \in 1..retryAttempts : outcomes[i] = "ok"}

\* retryDelay * 1 + ... + retryDelay * n
Backoff(n) == (retryDelay * n * (n + 1)) \div 2

\* C26: API3QRNGDriver.requestRandomness makes at most retryAttempts
\* submission attempts, returns the request id of the first attempt that
\* succeeds, waits retryDelay times the attempt number between consecutive
\* attempts, and throws after retryAttempts consecutive failures.
C26_BoundedRetry ==
  [][\A h \in HashInputs, s \in ApiSalts,
        outcomes \in [1..retryAttempts -> PostOutcomes] :
        (/\ api3Call'.op = "requestRandomness"
         /\ api3Call'.entityHash = h
         /\ validateInputs(h, s)
         /\ API3_requestRandomness(h, s, outcomes))
          => /\ api3Call'.attempts <= retryAttempts
             /\ IF SuccessfulAttempts(outcomes) # {}
                THEN LET first == CHOOSE i \in SuccessfulAttempts(outcomes) :
                                    \A j \in SuccessfulAttempts(outcomes) : i <= j
                     IN /\ api3Call'.ok
                        /\ api3Call'.attempts = first
                        /\ api3Call'.slept = Backoff(first - 1)
                        /\ api3Call'.requestId = qrngNextId
                        /\ MapHas(qrng', api3Call'.requestId)
                ELSE /\ ~api3Call'.ok
                     /\ api3Call'.attempts = retryAttempts
                     /\ api3Call'.slept = Backoff(retryAttempts - 1)
                     /\ qrng' = qrng]_vars

\* a request accepted at the last attempt, after two waits
C26_Witness ==
  /\ api3Call.op = "requestRandomness" /\ api3Call.ok
  /\ api3Call.attempts = retryAttempts
  /\ api3Call.slept = retryDelay + (retryDelay * 2)

\* C27: a submission rejected for bad credentials (HTTP 401, 'Invalid API
\* key') is not retried: requestRandomness surfaces the failure after a
\* single attempt.
C27_UnauthorizedNotRetried ==
  [][\A h \in HashInputs, s \in ApiSalts,
        outcomes \in [1..retryAttempts -> PostOutcomes] :
        (/\ api3Call'.op = "requestRandomness"
         /\ api3Call'.entityHash = h
         /\ validateInputs(h, s)
         /\ outcomes[1] = "401"
         /\ API3_requestRandomness(h, s, outcomes))
          => /\ ~api3Call'.ok
             /\ api3Call'.attempts = 1
             /\ api3Call'.error = ApiError("401")]_vars

\* C28: if requestRandomness fails during submission, the workflow stays in
\* Composing: no transaction id or entity hash is written to the store and
\* no navigation to the results page happens.
C28_FailedSubmitStaysComposing ==
  [][(wfCall'.op = "handleSubmit" /\ ~wfCall'.ok)
       => /\ store'.transactionId = store.transactionId
          /\ store'.entityHash = store.entityHash
          /\ store'.transactionId = InitialStore.transactionId
          /\ store'.entityHash = InitialStore.entityHash
          /\ route' = route /\ route'.name = "home"
          /\ committed' = committed
          /\ ~page'.mounted]_vars

\* a failed submission of a filled form
C28_Witness ==
  /\ wfCall.op = "handleSubmit" /\ ~wfCall.ok
  /\ store.inputData # <<>> /\ store.salt # <<>>
  /\ route.name = "home"

\* the requests made for entity hash h that the oracle has answered on chain
\* with a well-formed, non-zero word
FulfilledOnChain(h) ==
  {id \in 1..Len(vrfRequests) :
     /\ vrfRequests[id].entityHash = h
     /\ vrfRequests[id].fulfilled
     /\ vrfRequests[id].randomWord > 0
     /\ \E t \in 1..Len(chain) : \E i \in 1..Len(chain[t].logs) :
          chain[t].logs[i] =
            FulfilledLog(id, vrfRequests[id].randomWord, TRUE)}

\* C29: ChainlinkVRFDriver: once the VRF request made for an entity hash has
\* been fulfilled on chain, a later fetchRandomness(entityHash) whose receipt
\* lookup succeeds returns a positive integer.
C29_FulfilledIsFetched ==
  [][\A h \in HashInputs :
       (/\ CL_fetchRandomness(h, "ok")
        /\ MapHas(entityHashToTxId, h)
        /\ \A id \in 1..Len(vrfRequests) :
             vrfRequests[id].entityHash = h => id \in FulfilledOnChain(h))
       => chainlinkCall'.randomness > 0]_vars

\* ------------------------------------------------------------------------
\* utils/keccak: properties
\* ------------------------------------------------------------------------
\* the salt is no string, or a string of nothing but white space
BlankSalt(salt) ==
  salt.kind # "string" \/ \A i \in 1..Len(salt.text) : salt.text[i] \in Whitespace

\* text is core with white space (possibly none) put before and after it
PaddingOf(text, core) ==
  \E i \in 1..(Len(text) + 1) :
    /\ i + Len(core) - 1 <= Len(text)
    /\ SubSeq(text, i, i + Len(core) - 1) = core
    /\ \A k \in 1..Len(text) :
         (k < i \/ k > i + Len(core) - 1) => text[k] \in Whitespace

\* the pieces of text, the empty one among them
Substrings(text) ==
  {SubSeq(text, i, j) : i \in 1..(Len(text) + 1), j \in 0..Len(text)}

\* the salt with no white space at either end
CoreOf(text) ==
  CHOOSE core \in Substrings(text) :
    /\ PaddingOf(text, core)
    /\ core = <<>> \/ (core[1] \notin Whitespace /\ core[Len(core)] \notin Whitespace)

\* C30: saltToBytes32 maps every empty, null, undefined or whitespace-only
\* salt to the all-zero bytes32 sentinel, and any other salt to the digest of
\* the salt without its surrounding white space, which is never the zero
\* sentinel; salts that differ only in surrounding white space give the same
\* digest.
C30_SaltToBytes32 ==
  saltCall.op = "saltToBytes32" =>
    /\ BlankSalt(saltCall.salt) => saltCall.result = ZeroBytes32
    /\ ~BlankSalt(saltCall.salt) =>
         /\ saltCall.result = stringToBytes32(CoreOf(saltCall.salt.text))
         /\ saltCall.result # ZeroBytes32
         /\ saltCall.result # stringToBytes32(<<>>)
    /\ \A other \in SaltInputs :
         (/\ other.kind = "string" /\ saltCall.salt.kind = "string"
          /\ \E core \in Substrings(saltCall.salt.text) :
               /\ PaddingOf(other.text, core)
               /\ PaddingOf(saltCall.salt.text, core))
         => saltToBytes32(other) = saltCall.result

\* a salt with white space on both sides of a letter
C30_Witness ==
  /\ saltCall.op = "saltToBytes32"
  /\ saltCall.salt = [kind |-> "string", text |-> <<32, 115, 160>>]
  /\ saltCall.result = stringToBytes32(<<115>>)

C33_QueriesRevertForUnknown ==
  contract = "RandomProofOptimizedString" =>
    /\ \A h \in HashInputs :
         h \notin AcceptedHashes =>
           LET r == RPOS_getRandomnessForEntityHash(LedgerState, h)
               i == RPOS_getRequestIdForEntityHash(LedgerState, h)
           IN /\ ~r.ok /\ r.error = "RequestNotFound"
              /\ ~i.ok /\ i.error = "RequestNotFound"
    /\ \A id \in RequestIds :
         AcceptedWithId(id) = {} =>
           LET d == RPOS_getRequestDetails(LedgerState, id)
           IN ~d.ok /\ d.error = "RequestNotFound"

\* one hash accepted, and a delivery taken for an id no request was given
C33_Witness ==
  /\ contract = "RandomProofOptimizedString"
  /\ AcceptedWithId(1) # {} /\ AcceptedWithId(2) = {}
  /\ RPOS_getRequestDetails(LedgerState, 1).ok
  /\ s_requests[2].fulfilled
  /\ ~RPOS_getRequestDetails(LedgerState, 2).ok
  /\ \E h \in HashInputs : h \notin AcceptedHashes /\ HashLen(h) = 64

\* C34: the request count (getRequestCount / requestCount) always equals the
\* number of accepted requests: it starts at 0, increases by exactly 1 on each
\* accepted requestRandomness, and is unchanged by rejected submissions and by
\* fulfillments.
C34_CountIsAccepted ==
  /\ [](contract \in Counting =>
          /\ GetRequestCount(contract, LedgerState) = Cardinality(AcceptedSubmissions)
          /\ GetRequestCount(contract, LedgerState) =
               Cardinality({id \in RequestIds : s_requests[id].requester # ZeroAddress}))
  /\ [][(contract \in Counting) =>
          IF call'.op = "requestRandomness" /\ call'.ok
          THEN GetRequestCount(contract, LedgerState)' =
                 GetRequestCount(contract, LedgerState) + 1
          ELSE GetRequestCount(contract, LedgerState)' =
                 GetRequestCount(contract, LedgerState)]_vars

\* two accepted requests and a delivery: the count is 2
C34_Witness ==
  /\ contract \in Counting
  /\ GetRequestCount(contract, LedgerState) = 2
  /\ call.op \in FulfillOps /\ call.ok
  /\ \E id \in RequestIds : s_requests[id].fulfilled

\* C37: for each request id the ledger emits at most one RandomnessFulfilled
\* event (and at most one EntityProcessed event), however many times a
\* fulfillment is delivered for that id.
C37_AtMostOneFulfilledEvent ==
  \A id \in RequestIds :
    s_requests[id].requester # ZeroAddress =>
      /\ Cardinality(DeliveriesFor(id)) <= 1
      /\ Cardinality({i \in 1..Len(events) :
                        /\ events[i].name = "EntityProcessed"
                        /\ events[i].requestId = id}) <= 1

\* s_requests[entityHashToRequestId[entityHash]]: the record the index names
IndexedRecord(h) == s_requests[entityHashToRequestId[HashKey(contract, h)]]

\* C40: for every accepted entity hash h, the hash-to-request index always
\* points at the record created for h: the record it names holds the entity
\* hash, salt and requester of an accepted submission of h under that id, and
\* no later step moves the index of h or rewrites those fields.
C40_IndexPointsAtOwnRecord ==
  /\ [](\A h \in HashInputs :
          LET key == HashKey(contract, h)
              id == entityHashToRequestId[key] IN
          (\E i \in 1..Len(events) : /\ events[i].name = "RandomnessRequested"
                                      /\ events[i].entityHash = key)
            => /\ id # 0
               /\ s_requests[id].entityHash = key
               /\ \E i \in 1..Len(events) :
                    /\ events[i].name = "RandomnessRequested"
                    /\ events[i].requestId = id
                    /\ events[i].entityHash = key
                    /\ events[i].salt = s_requests[id].salt
                    /\ events[i].requester = s_requests[id].requester)
  /\ [][\A h \in HashInputs :
          LET key == HashKey(contract, h)
              id == entityHashToRequestId[key] IN
          id # 0 => /\ entityHashToRequestId'[key] = id
                    /\ s_requests'[id].entityHash = s_requests[id].entityHash
                    /\ s_requests'[id].salt = s_requests[id].salt
                    /\ s_requests'[id].requester = s_requests[id].requester]_vars

\* two hashes accepted from different users with different salts, the first
\* one fulfilled since
C40_Witness ==
  /\ Cardinality(AcceptedHashes) = 2
  /\ entityHashToRequestId[HashKey(contract, "h1")] = 1
  /\ entityHashToRequestId[HashKey(contract, "h2")] = 2
  /\ IndexedRecord("h1").salt # IndexedRecord("h2").salt
  /\ IndexedRecord("h1").requester # IndexedRecord("h2").requester
  /\ IndexedRecord("h1").fulfilled

\* ------------------------------------------------------------------------
\* ResilientAPI3Driver and the tracking maps of API3QRNGDriver: properties
\* ------------------------------------------------------------------------
\* what one fetchRandomness for this hash can return in the current state,
\* whatever the service does first
PossibleFetchResults(h) ==
  {FetchResultOn(api3_pendingRequests, api3_entityHashToRequestId,
                 ServiceAfter(qrng, api3_entityHashToRequestId, h, step.service),
                 h, step.outcome).randomness : step \in PollSteps}

\* C35: ResilientAPI3Driver.fetchRandomnessWithRetry terminates: it calls
\* fetchRandomness at most maxRetries times, returns the first result that is
\* > 0, waits baseDelay * 2^k after the zero result that follows k earlier
\* ones, and throws once maxRetries polls have all returned 0.
C35_BoundedPolling ==
  [][api3Call'.op = "fetchRandomnessWithRetry" =>
       LET polled == api3Call'.polled
           n == Len(api3Call'.polled)
       IN /\ n = api3Call'.attempts
          /\ 1 <= n /\ n <= maxRetries
          /\ polled[1] \in PossibleFetchResults(api3Call'.entityHash)
          /\ \A i \in 1..(n - 1) : polled[i] = 0
          /\ IF polled[n] > 0
             THEN /\ api3Call'.ok
                  /\ api3Call'.randomness = polled[n]
                  /\ api3Call'.slept = baseDelay * ((2 ^ (n - 1)) - 1)
             ELSE /\ ~api3Call'.ok
                  /\ api3Call'.error # ""
                  /\ n = maxRetries
                  /\ api3Call'.slept = baseDelay * ((2 ^ maxRetries) - 1)]_vars

\* a value returned by the third poll, after waits of 1000 and 2000 ms
C35_Witness ==
  /\ api3Call.op = "fetchRandomnessWithRetry" /\ api3Call.ok
  /\ api3Call.attempts = 3 /\ api3Call.randomness = 42
  /\ api3Call.slept = 3000
  /\ api3Call.polled = <<0, 0, 42>>

\* C39: API3QRNGDriver keeps its two tracking maps consistent after every
\* operation: a request id is the value of some entry of
\* entityHashToRequestId exactly when it has an entry in pendingRequests.
C39_TrackingMapsConsistent ==
  \A id \in 1..MaxQrngRequests :
    (\E h \in DOMAIN api3_entityHashToRequestId :
        api3_entityHashToRequestId[h] = id)
      <=> MapHas(api3_pendingRequests, id)

\* ------------------------------------------------------------------------
\* DeterministicTestDriver: properties
\* ------------------------------------------------------------------------

\* C31: getReproducibleResult(entityHash, salt) returns the same positive
\* value every time it is called with the same seed, entityHash and salt,
\* whenever it is called: a call that returns, returns a value above 0 that
\* is the value the call before it returned for the same entity hash and
\* salt.
C31_ReproducibleResult ==
  [][(/\ detCall'.op = "getReproducibleResult"
      /\ detCall'.ok
      /\ detCall.op = "getReproducibleResult"
      /\ detCall.ok
      /\ detCall'.entityHash = detCall.entityHash
      /\ detCall'.salt = detCall.salt
      /\ det'.seed = det.seed)
     => /\ detCall'.result # DetZero
        /\ detCall'.result = detCall.result]_vars

\* ------------------------------------------------------------------------
\* The commitment: properties
\* ------------------------------------------------------------------------

\* C36: two submissions with different (processed data, salt) pairs never
\* commit the same entity hash: the commitment binds the data and the salt
\* individually, not only their concatenation.
C36_CommitmentBindsDataAndSalt ==
  \A i, j \in 1..Len(submissions) :
     <<submissions[i].processedData, submissions[i].salt>> #
       <<submissions[j].processedData, submissions[j].salt>>
     => submissions[i].entityHash # submissions[j].entityHash

\* ------------------------------------------------------------------------
\* The results page: polls in flight
\* ------------------------------------------------------------------------

\* C38: once polling has stopped (a positive value was stored) or the
\* results component has been unmounted, no poll that was still in flight
\* writes randomness, response data or verification status to the store.
C38_NoWriteAfterStopOrUnmount ==
  [][(~poller.isPolling \/ poller.unmounted)
     => /\ store'.randomValue = store.randomValue
        /\ store'.responseTransactionId = store.responseTransactionId
        /\ store'.verificationStatus = store.verificationStatus]_vars

====
